---- MODULE Spec2Model ----
(***************************************************************************)
(* Model of the App Store asset downloader                                 *)
(* (src/app_store_asset_cli/download_app_assets.py; src/download_app_      *)
(* assets.py holds the same resolver code).                                *)
(*                                                                         *)
(* Strings are sequences of lexemes: a lexeme is a run of characters that  *)
(* the program never splits and inside which its substring tests either    *)
(* match or do not (Sub).  "https://x.com/a.webp" is the sequence          *)
(* <<"https:", "//", "x.com", "/a", ".webp">>.  Two strings are equal iff  *)
(* their lexeme sequences are equal.                                       *)
(***************************************************************************)
EXTENDS Integers, Sequences, FiniteSets, TLC

\* ------------------------------------------------------------------ bounds

\* Longest country list given to download_all_countries.
MaxCountries == 2
\* Most downloads the network lets fail while one country is processed.
MaxFailures == 1

\* --------------------------------------------------------- program constants

\* The cap on the number of screenshot URLs (screenshot_urls[:10], len >= 10).
MaxShots == 10

\* Python's None where a dict or a crawl result is expected.  An absent string
\* (a language, a slug, a path, an attribute) is the empty string <<>>: the code
\* tests all of these by truth value only.
None == [none |-> TRUE]

\* ------------------------------------------------------------ string helpers

\* The one element of a singleton.  Only({e : x \in {v}}) is e with x standing
\* for the value v; the loops below use it to hand a computed value on.
Only(S) == CHOOSE v \in S : TRUE

Range(s) == {s[i] : i \in 1..Len(s)}

StartsWith(s, p) == Len(s) >= Len(p) /\ SubSeq(s, 1, Len(p)) = p

EndsWith(s, p) == Len(s) >= Len(p) /\ SubSeq(s, Len(s) - Len(p) + 1, Len(s)) = p

\* The needles of the program's substring tests that occur inside one lexeme.
Sub(lex) ==
    CASE lex = "is.mzstatic.com" -> {"is.mzstatic.com", "mzstatic.com"}
      [] lex = "is1-ssl.mzstatic.com" -> {"mzstatic.com"}
      [] lex = "image/jpeg" -> {"image/jpeg"}
      [] lex = "/image/thumb/" -> {"/image/thumb/"}
      [] lex = "/PurpleSource/" -> {"/Purple"}
      [] lex = "/AppIcon-1x" -> {"AppIcon", "AppIcon-"}
      [] lex = "/marketing" -> {"marketing"}
      [] lex = "/1200x630bb" -> {"1200x630"}
      [] lex = "/1290x2796bb" -> {"1290x"}
      [] lex = "/750x1334bb" -> {"750x"}
      [] lex = "/640x1136bb" -> {"640x"}
      [] OTHER -> {}

\* needle in s
Contains(s, needle) == \E i \in 1..Len(s) : needle \in Sub(s[i])

ContainsAny(s, needles) == \E n \in needles : Contains(s, n)

\* str.strip(): leading and trailing whitespace removed.
RECURSIVE LStrip(_)
LStrip(s) == IF s # <<>> /\ Head(s) = " " THEN LStrip(Tail(s)) ELSE s

RStrip(s) ==
    LET keep == {i \in 1..Len(s) : s[i] # " "}
    IN IF keep = {} THEN <<>>
       ELSE SubSeq(s, 1, CHOOSE i \in keep : \A j \in keep : j <= i)

Strip(s) == RStrip(LStrip(s))

\* str.replace(old, new) for one-lexeme old and new.
ReplaceLex(s, old, new) == [i \in 1..Len(s) |-> IF s[i] = old THEN new ELSE s[i]]

\* The k-th smallest member of a set of positions.
Nth(S, k) == CHOOSE i \in S : Cardinality({j \in S : j < i}) = k - 1

\* str.split(sep) for a one-lexeme separator: the list of pieces.
SplitOn(s, sep) ==
    LET seps == {i \in 1..Len(s) : s[i] = sep}
        cut(k) == IF k = 0 THEN 0
                  ELSE IF k > Cardinality(seps) THEN Len(s) + 1
                  ELSE Nth(seps, k)
    IN [k \in 1..(Cardinality(seps) + 1) |-> SubSeq(s, cut(k - 1) + 1, cut(k) - 1)]

\* str.split(): pieces between runs of whitespace, none of them empty.
SplitWs(s) == SelectSeq(SplitOn(s, " "), LAMBDA piece : piece # <<>>)

\* list(dict.fromkeys(xs)): first occurrences, in order.
RECURSIVE DictFromKeys(_)
DictFromKeys(xs) ==
    IF xs = <<>> THEN <<>>
    ELSE Only({IF xs[Len(xs)] \in Range(init) THEN init ELSE Append(init, xs[Len(xs)]) :
                  init \in {DictFromKeys(SubSeq(xs, 1, Len(xs) - 1))}})

\* ------------------------------------------------------- _normalize_image_url

\* A normalizer that leaves the URL as the API gave it.
NormalizeImageUrlKeeps(url) == url

NormalizeImageUrl(url) ==
    IF url = <<>> THEN <<>>
    ELSE LET stripped == Strip(url)
             absolute == IF StartsWith(stripped, <<"//">>)
                         THEN <<"https:">> \o stripped
                         ELSE stripped
         IN ReplaceLex(absolute, ".webp", ".jpg")

\* --------------------------------------------------------------- _parse_srcset

\* float(match.group("value")) for the number lexemes of the model's pages.
NumVal(lex) ==
    CASE lex = "1" -> 1
      [] lex = "2" -> 2
      [] lex = "3" -> 3
      [] lex = "300" -> 300
      [] lex = "750" -> 750
      [] lex = "1242" -> 1242
      [] lex = "1290" -> 1290
      [] OTHER -> -1

\* A scorer that reads a density like a width.
DescriptorScoreAsWidth(descriptor) ==
    IF Len(descriptor) >= 2 /\ NumVal(descriptor[1]) >= 0 /\ descriptor[2] \in {"w", "x"}
    THEN NumVal(descriptor[1])
    ELSE 0

\* re.match(r"(?P<value>\d+(?:\.\d+)?)(?P<unit>[wx])", descriptor): a number
\* lexeme followed by the unit lexeme; score = value for w, value * 1000 for x.
DescriptorScore(descriptor) ==
    IF Len(descriptor) >= 2 /\ NumVal(descriptor[1]) >= 0 /\ descriptor[2] \in {"w", "x"}
    THEN IF descriptor[2] = "w" THEN NumVal(descriptor[1])
         ELSE NumVal(descriptor[1]) * 1000
    ELSE 0

\* One chunk of srcset.split(","), with its enumerate() index: the candidates
\* it contributes (none or one).
SrcsetEntry(chunk, order) ==
    LET entry == Strip(chunk)
        parts == SplitWs(entry)
        url == IF parts # <<>> THEN parts[1] ELSE <<>>
        descriptor == IF Len(parts) > 1 THEN parts[2] ELSE <<>>
        normalized_url == NormalizeImageUrl(url)
    IN IF entry = <<>> THEN <<>>
       ELSE IF normalized_url # <<>> /\ normalized_url[1] \in {"https:", "http:"}
            THEN <<[score |-> DescriptorScore(descriptor), order |-> order,
                    url |-> normalized_url]>>
            ELSE <<>>

RECURSIVE ParseChunks(_, _)
ParseChunks(chunks, order) ==
    IF chunks = <<>> THEN <<>>
    ELSE SrcsetEntry(Head(chunks), order) \o ParseChunks(Tail(chunks), order + 1)

ParseSrcset(srcset) ==
    IF srcset = <<>> THEN <<>> ELSE ParseChunks(SplitOn(srcset, ","), 0)

\* A choice that takes the last of the candidates with the greatest score.
LastBestCandidate(candidates) ==
    candidates[CHOOSE i \in 1..Len(candidates) :
                   /\ \A j \in 1..Len(candidates) : candidates[j].score <= candidates[i].score
                   /\ \A j \in (i + 1)..Len(candidates) :
                         candidates[j].score < candidates[i].score]

\* candidates.sort(key=lambda x: x[0], reverse=True); candidates[0]: Python's
\* sort is stable, so the first of the candidates with the greatest score.
BestCandidate(candidates) ==
    LET k == CHOOSE i \in 1..Len(candidates) :
                 /\ \A j \in 1..Len(candidates) : candidates[j].score <= candidates[i].score
                 /\ \A j \in 1..(i - 1) : candidates[j].score < candidates[i].score
    IN candidates[k]

\* ------------------------------------------------- the rendered page (result.html)

\* A page is [pictures, sources, imgs, script]: the <picture> elements (each
\* the list of its <source> children), the <source> elements outside any
\* <picture>, the <img> elements and the text of its scripts, in document
\* order.  A source is [type, srcset, data_srcset], an img is [src, data_src,
\* data_lazy_src]; a missing attribute is the empty string, which every
\* .get(..., '') and every "or" of the code treats like a missing one.

RECURSIVE Flatten(_)
Flatten(lists) == IF lists = <<>> THEN <<>> ELSE Head(lists) \o Flatten(Tail(lists))

\* soup.find_all('source')
AllSources(page) == Flatten(page.pictures) \o page.sources

\* The resolution tokens of the loose and the img stage, and of the source stage.
LOOSE_SIZES == {"1290x", "1242x", "1170x", "1179x", "1284x", "828x", "750x", "640x"}
SOURCE_SIZES == {"1290x", "1242x", "1170x", "1179x", "1284x", "828x", "750x"}

\* Lexemes matching /\d+x\d+bb, and those matching /(300x|600x|460x|314x|230x|157x)\d+bb.
SizeSegments ==
    {"/300x650bb", "/600x1300bb", "/1290x2796bb", "/750x1334bb", "/640x1136bb",
     "/1200x630bb", "/100x100bb", "/512x512bb", "/392x696bb", "/60x60bb"}
StrictSizeSegments == {"/300x650bb", "/600x1300bb"}
\* Lexemes that begin with a dot (the file extensions).
DotLexemes == {".jpg", ".jpeg", ".png", ".webp"}

\* re.sub(r'/\d+x\d+bb.*$', '', url): cut from the first size segment on.
BaseUrl(url) ==
    IF \E i \in 1..Len(url) : url[i] \in SizeSegments
    THEN LET k == CHOOSE i \in 1..Len(url) :
                      url[i] \in SizeSegments /\ \A j \in 1..(i - 1) : url[j] \notin SizeSegments
         IN SubSeq(url, 1, k - 1)
    ELSE url

\* re.sub(r'/\d+x\d+bb\.', replacement + '.', s): every size segment that a
\* dot follows is replaced.
ForceSize(s, replacement) ==
    [i \in 1..Len(s) |->
        IF s[i] \in SizeSegments /\ i < Len(s) /\ s[i + 1] \in DotLexemes
        THEN replacement ELSE s[i]]

\* ------------------------------------------ stage 1: strict <picture>/<source>

STRICT_EXCLUDES == {"AppIcon", "marketing", "1200x630"}

\* source.get('srcset') or source.get('data-srcset', '')
SrcsetOf(source) == IF source.srcset # <<>> THEN source.srcset ELSE source.data_srcset

\* A strict scan that keeps every accepted URL, whatever its base path.
StrictSourceKeepsAll(source, st) ==
    LET srcset == SrcsetOf(source)
        candidates == ParseSrcset(srcset)
        url == BestCandidate(candidates).url
    IN IF srcset = <<>> \/ ~Contains(srcset, "mzstatic.com") THEN st
       ELSE IF candidates = <<>> THEN st
       ELSE IF ContainsAny(url, STRICT_EXCLUDES) THEN st
       ELSE IF \E i \in 1..Len(url) : url[i] \in StrictSizeSegments
            THEN [urls |-> Append(st.urls, url), seen |-> st.seen \cup {BaseUrl(url)}]
            ELSE st

\* The body of "for source in jpg_sources" for one source: st is
\* [urls, seen], the image_urls list and the seen_base_urls set.
StrictSource(source, st) ==
    LET srcset == SrcsetOf(source)
        candidates == ParseSrcset(srcset)
        url == BestCandidate(candidates).url
    IN IF srcset = <<>> \/ ~Contains(srcset, "mzstatic.com") THEN st
       ELSE IF candidates = <<>> THEN st
       ELSE IF ContainsAny(url, STRICT_EXCLUDES) THEN st
       ELSE IF (\E i \in 1..Len(url) : url[i] \in StrictSizeSegments)
               /\ BaseUrl(url) \notin st.seen
            THEN [urls |-> Append(st.urls, url), seen |-> st.seen \cup {BaseUrl(url)}]
            ELSE st

\* for source in jpg_sources: ...; if len(image_urls) >= 10: break
RECURSIVE StrictSources(_, _)
StrictSources(sources, st) ==
    IF sources = <<>> THEN st
    ELSE Only({IF next # st /\ Len(next.urls) >= MaxShots THEN next
               ELSE StrictSources(Tail(sources), next) :
                  next \in {StrictSource(Head(sources), st)}})

\* for picture in all_pictures: ...; if len(image_urls) >= 10: break
RECURSIVE StrictPictures(_, _)
StrictPictures(pictures, st) ==
    IF pictures = <<>> THEN st
    ELSE Only({IF Len(next.urls) >= MaxShots THEN next
               ELSE StrictPictures(Tail(pictures), next) :
                  next \in {StrictSources(SelectSeq(Head(pictures),
                                                    LAMBDA s : Contains(s.type, "image/jpeg")),
                                          st)}})

StrictStage(page) == StrictPictures(page.pictures, [urls |-> <<>>, seen |-> {}]).urls

\* -------------------------------------------- stage 2: loose <picture>/<source>

\* for _, _, url in self._parse_srcset(srcset): append the new ones, break at 10.
RECURSIVE AppendNew(_, _)
AppendNew(urls, image_urls) ==
    IF urls = <<>> THEN image_urls
    ELSE IF Head(urls) \in Range(image_urls) THEN AppendNew(Tail(urls), image_urls)
    ELSE Only({IF Len(next) >= MaxShots THEN next ELSE AppendNew(Tail(urls), next) :
                  next \in {Append(image_urls, Head(urls))}})

CandidateUrls(srcset) ==
    LET candidates == ParseSrcset(srcset) IN [i \in 1..Len(candidates) |-> candidates[i].url]

\* for source in picture.find_all('source'): no break leaves this loop.
RECURSIVE LooseSources(_, _)
LooseSources(sources, image_urls) ==
    IF sources = <<>> THEN image_urls
    ELSE Only({LooseSources(Tail(sources), next) :
                  next \in {IF Contains(Head(sources).srcset, "is.mzstatic.com")
                               /\ ContainsAny(Head(sources).srcset, LOOSE_SIZES)
                            THEN AppendNew(CandidateUrls(Head(sources).srcset), image_urls)
                            ELSE image_urls}})

\* for picture in all_pictures: ...; if len(image_urls) >= 10: break
RECURSIVE LoosePictures(_, _)
LoosePictures(pictures, image_urls) ==
    IF pictures = <<>> THEN image_urls
    ELSE Only({IF Len(next) >= MaxShots THEN next ELSE LoosePictures(Tail(pictures), next) :
                  next \in {LooseSources(Head(pictures), image_urls)}})

LooseStage(page, image_urls) == LoosePictures(page.pictures, image_urls)

\* -------------------------------------------------------- stage 3: <img> tags

\* img.get('src', '') or img.get('data-src', '') or img.get('data-lazy-src', '')
ImgSrc(img) ==
    IF img.src # <<>> THEN img.src
    ELSE IF img.data_src # <<>> THEN img.data_src
    ELSE img.data_lazy_src

\* The URL an accepted <img> contributes: its size segment forced, WEBP to JPG.
ImgUrl(src) == ReplaceLex(ForceSize(src, "/1290x2796bb"), ".webp", ".jpg")

ImgAccepted(src) ==
    src # <<>> /\ Contains(src, "is.mzstatic.com") /\ ContainsAny(src, LOOSE_SIZES)

RECURSIVE ImgLoop(_, _)
ImgLoop(imgs, image_urls) ==
    IF imgs = <<>> THEN image_urls
    ELSE IF ImgAccepted(ImgSrc(Head(imgs)))
            /\ ImgUrl(ImgSrc(Head(imgs))) \notin Range(image_urls)
    THEN Only({IF Len(next) >= MaxShots THEN next ELSE ImgLoop(Tail(imgs), next) :
                  next \in {Append(image_urls, ImgUrl(ImgSrc(Head(imgs))))}})
    ELSE ImgLoop(Tail(imgs), image_urls)

ImgStage(page, image_urls) == ImgLoop(page.imgs, image_urls)

\* -------------------------------------------------- stage 4: all <source> tags

\* for _, _, url in self._parse_srcset(srcset): the size test is on each url.
SourceUrls(srcset) ==
    SelectSeq(CandidateUrls(srcset), LAMBDA url : ContainsAny(url, SOURCE_SIZES))

\* for source in all_sources: ...; if len(image_urls) >= 10: break
RECURSIVE SourceLoop(_, _)
SourceLoop(sources, image_urls) ==
    IF sources = <<>> THEN image_urls
    ELSE Only({IF Len(next) >= MaxShots THEN next ELSE SourceLoop(Tail(sources), next) :
                  next \in {IF Contains(SrcsetOf(Head(sources)), "is.mzstatic.com")
                               \/ Contains(SrcsetOf(Head(sources)), "mzstatic.com")
                            THEN AppendNew(SourceUrls(SrcsetOf(Head(sources))), image_urls)
                            ELSE image_urls}})

SourceStage(page, image_urls) == SourceLoop(AllSources(page), image_urls)

\* ---------------------------------------------- stage 5: regex over result.html

\* result.html as text: the attribute values of the elements, each between
\* double quotes, then the script text.
RECURSIVE Quoted(_)
Quoted(values) ==
    IF values = <<>> THEN <<>>
    ELSE (IF Head(values) = <<>> THEN <<>> ELSE <<"\"">> \o Head(values) \o <<"\"">>)
         \o Quoted(Tail(values))

SourceAttrs(sources) ==
    Flatten([i \in 1..Len(sources) |->
                <<sources[i].type, sources[i].srcset, sources[i].data_srcset>>])

ImgAttrs(imgs) ==
    Flatten([i \in 1..Len(imgs) |-> <<imgs[i].src, imgs[i].data_src, imgs[i].data_lazy_src>>])

Html(page) ==
    Quoted(SourceAttrs(AllSources(page))) \o Quoted(ImgAttrs(page.imgs)) \o page.script

\* Lexemes made of characters outside [a-zA-Z0-9\-._~:/?#\[\]@!$&()*+,;=%].
NonUrlLexemes == {" ", "\"", "'", "<", ">"}

\* The maximal runs of URL characters of a text.
UrlRuns(text) ==
    LET starts == {i \in 1..Len(text) :
                      /\ text[i] \notin NonUrlLexemes
                      /\ i = 1 \/ text[i - 1] \in NonUrlLexemes}
        stop(i) == CHOOSE n \in i..Len(text) :
                      /\ \A j \in i..n : text[j] \notin NonUrlLexemes
                      /\ n < Len(text) => text[n + 1] \in NonUrlLexemes
    IN [k \in 1..Cardinality(starts) |->
           SubSeq(text, Nth(starts, k), stop(Nth(starts, k)))]

\* The match of https://[...]+mzstatic\.com/[...]+ in one run, or <<>>: from the
\* first "https://" that a CDN host with a path after it follows, to the run's end.
CdnMatch(run) ==
    LET starts == {i \in 1..Len(run) :
                      /\ i + 1 <= Len(run) /\ run[i] = "https:" /\ run[i + 1] = "//"
                      /\ \E h \in (i + 2)..(Len(run) - 1) : "mzstatic.com" \in Sub(run[h])}
    IN IF starts = {} THEN <<>>
       ELSE SubSeq(run, CHOOSE i \in starts : \A j \in starts : i <= j, Len(run))

\* re.findall(r'https://[...]+mzstatic\.com/[...]+', result.html)
FindCdnUrls(text) ==
    LET runs == UrlRuns(text)
        matches == [i \in 1..Len(runs) |-> CdnMatch(runs[i])]
    IN SelectSeq(matches, LAMBDA m : m # <<>>)

\* re.search(r'\d{3,4}x\d{3,4}', url): the size segments with three or four
\* digits on both sides of the x.
HasWxH(url) == \E i \in 1..Len(url) : url[i] \in SizeSegments \ {"/60x60bb"}

REGEX_EXCLUDES == {"1200x630", "AppIcon-", "marketing"}

PreferredCandidates(urls) ==
    SelectSeq(urls, LAMBDA url : /\ ~ContainsAny(url, REGEX_EXCLUDES)
                                 /\ Contains(url, "/image/thumb/")
                                 /\ HasWxH(url))

LoosenedCandidates(urls) ==
    SelectSeq(urls, LAMBDA url : /\ ~Contains(url, "AppIcon")
                                 /\ ~Contains(url, "1200x630")
                                 /\ ContainsAny(url, {"/image/thumb/", "/Purple", "/Features"})
                                 /\ HasWxH(url))

\* url.split(sep)[0]
BeforeFirst(url, sep) == SplitOn(url, sep)[1]

\* The trimming and the extension rewrite of one regex candidate.
CleanCandidate(url) ==
    LET cut == BeforeFirst(BeforeFirst(BeforeFirst(BeforeFirst(BeforeFirst(
                   url, "&"), "\""), "'"), ")"), ",")
    IN IF EndsWith(cut, <<".webp">>) THEN ReplaceLex(cut, ".webp", ".jpg")
       ELSE IF EndsWith(cut, <<".png">>) THEN ReplaceLex(cut, ".png", ".jpg")
       ELSE IF EndsWith(cut, <<".jpg">>) \/ EndsWith(cut, <<".jpeg">>) THEN cut
       ELSE Append(cut, ".jpg")

RegexStage(page, image_urls) ==
    LET all_mzstatic_urls == FindCdnUrls(Html(page))
        preferred == PreferredCandidates(all_mzstatic_urls)
        screenshot_candidates == IF preferred # <<>> THEN preferred
                                 ELSE LoosenedCandidates(all_mzstatic_urls)
        unique_candidates == DictFromKeys(screenshot_candidates)
        cleaned == [i \in 1..Len(unique_candidates) |-> CleanCandidate(unique_candidates[i])]
    IN AppendNew(cleaned, image_urls)

\* ------------------------------------------------------------ the merge policy

\* for url in screenshot_urls[:10]: normalize, keep the non-empty ones.
ApiUrls(metadata) ==
    IF metadata = None THEN <<>>
    ELSE LET screenshot_urls == metadata.screenshotUrls
             first == SubSeq(screenshot_urls, 1,
                             IF Len(screenshot_urls) < MaxShots
                             THEN Len(screenshot_urls) ELSE MaxShots)
             normalized == [i \in 1..Len(first) |-> NormalizeImageUrl(first[i])]
         IN SelectSeq(normalized, LAMBDA url : url # <<>>)

\* str.lower() on the language lexemes of the model.
LowerLex(lex) ==
    CASE lex = "EN" -> "en"
      [] lex = "-US" -> "-us"
      [] lex = "TR" -> "tr"
      [] OTHER -> lex

Lower(s) == [i \in 1..Len(s) |-> LowerLex(s[i])]

\* skip_api = bool(language and not language.lower().startswith("en"))
SkipApi(language) ==
    language # <<>> /\ ~StartsWith(Lower(language), <<"en">>)

\* A download_screenshots that scrapes for every country.
NeedScrapeAlways(language, api_urls) == TRUE

NeedScrape(language, api_urls) == SkipApi(language) \/ api_urls = <<>>

\* A merge that always combines the API's URLs with the scraped ones.
MergeCombinesAlways(skip_api, api_urls, scraped_urls) ==
    DictFromKeys(api_urls \o scraped_urls)

\* A merge without the fallback to the API's URLs.
MergeWithoutFallback(skip_api, api_urls, scraped_urls) ==
    IF skip_api THEN scraped_urls ELSE DictFromKeys(api_urls \o scraped_urls)

\* The three branches that choose image_urls.
Merge(skip_api, api_urls, scraped_urls) ==
    IF skip_api /\ scraped_urls # <<>> THEN scraped_urls
    ELSE IF skip_api /\ scraped_urls = <<>> /\ api_urls # <<>> THEN api_urls
    ELSE DictFromKeys(api_urls \o scraped_urls)

\* --------------------------------------------- language, slug and storefront URL

DEFAULT_LANGUAGE == <<"en">>

\* COUNTRY_LANGUAGE_MAP.get(country_code, DEFAULT_LANGUAGE)
CountryLanguage(country_code) ==
    CASE country_code = "us" -> <<"en">>
      [] country_code = "gb" -> <<"en", "-gb">>
      [] country_code = "ie" -> <<"en", "-ie">>
      [] country_code = "ca" -> <<"en", "-ca">>
      [] country_code = "au" -> <<"en", "-au">>
      [] country_code = "nz" -> <<"en", "-nz">>
      [] country_code = "sg" -> <<"en", "-sg">>
      [] country_code = "in" -> <<"en", "-in">>
      [] country_code = "za" -> <<"en", "-za">>
      [] country_code = "tr" -> <<"tr">>
      [] country_code = "de" -> <<"de">>
      [] country_code = "at" -> <<"de", "-at">>
      [] country_code = "ch" -> <<"de", "-ch">>
      [] country_code = "fr" -> <<"fr">>
      [] country_code = "be" -> <<"fr", "-be">>
      [] country_code = "it" -> <<"it">>
      [] country_code = "es" -> <<"es">>
      [] country_code = "mx" -> <<"es", "-mx">>
      [] country_code = "ar" -> <<"es", "-ar">>
      [] country_code = "cl" -> <<"es", "-cl">>
      [] country_code = "co" -> <<"es", "-co">>
      [] country_code = "pe" -> <<"es", "-pe">>
      [] country_code = "br" -> <<"pt", "-br">>
      [] country_code = "pt" -> <<"pt", "-pt">>
      [] country_code = "nl" -> <<"nl">>
      [] country_code = "se" -> <<"sv">>
      [] country_code = "no" -> <<"no">>
      [] country_code = "dk" -> <<"da">>
      [] country_code = "fi" -> <<"fi">>
      [] country_code = "pl" -> <<"pl">>
      [] country_code = "cz" -> <<"cs">>
      [] country_code = "hu" -> <<"hu">>
      [] country_code = "gr" -> <<"el">>
      [] country_code = "ro" -> <<"ro">>
      [] country_code = "sk" -> <<"sk">>
      [] country_code = "jp" -> <<"ja">>
      [] country_code = "kr" -> <<"ko">>
      [] country_code = "cn" -> <<"zh">>
      [] country_code = "tw" -> <<"zh", "-hant">>
      [] country_code = "hk" -> <<"zh", "-hk">>
      [] country_code = "id" -> <<"id">>
      [] country_code = "my" -> <<"ms">>
      [] country_code = "th" -> <<"th">>
      [] country_code = "vn" -> <<"vi">>
      [] country_code = "ru" -> <<"ru">>
      [] country_code = "ua" -> <<"uk">>
      [] country_code = "ae" -> <<"ar">>
      [] country_code = "sa" -> <<"ar">>
      [] country_code = "qa" -> <<"ar">>
      [] country_code = "kw" -> <<"ar">>
      [] country_code = "il" -> <<"he">>
      [] OTHER -> DEFAULT_LANGUAGE

\* A resolver that knows the override only.
ResolveLanguageOverrideOnly(country_code, override) == override

\* _resolve_language: the override when it is truthy, else the country's language.
ResolveLanguage(country_code, override) ==
    IF override # <<>> THEN override ELSE CountryLanguage(country_code)

\* str.lower() on the country codes of the model.
LowerCountry(country) ==
    CASE country = "TR" -> "tr"
      [] country = "US" -> "us"
      [] OTHER -> country

\* (country or "us").lower()
CountryCode(country) == LowerCountry(IF country = "" THEN "us" ELSE country)

\* normalized_language_map.get(country_code) if normalized_language_map else None,
\* where the normalized map is {key.lower(): value}: a later key wins.
MapLanguage(language_map, country_code) ==
    LET hits == {i \in 1..Len(language_map) : LowerCountry(language_map[i][1]) = country_code}
    IN IF hits = {} THEN <<>>
       ELSE language_map[CHOOSE i \in hits : \A j \in hits : j <= i][2]

\* The slug that the name-to-slug steps (NFKD, ascii, lower, non-alphanumerics
\* to "-", strip "-") give for the track names of the model.
NameSlug(track_name) ==
    CASE track_name = <<"My", " ", "App">> -> <<"my-app">>
      [] OTHER -> <<>>

\* _extract_slug: re.search(r"/app/([^/]+)/id\d+", trackViewUrl), else the name.
ExtractSlug(metadata) ==
    IF metadata = None THEN <<>>
    ELSE LET track_url == metadata.trackViewUrl
             hits == {i \in 1..Len(track_url) :
                         /\ i + 3 <= Len(track_url)
                         /\ track_url[i] = "/app/" /\ track_url[i + 1] \notin {"/", "/id"}
                         /\ track_url[i + 2] = "/id" /\ NumVal(track_url[i + 3]) >= 0}
         IN IF hits # {}
            THEN <<track_url[(CHOOSE i \in hits : \A j \in hits : i <= j) + 1]>>
            ELSE NameSlug(metadata.trackName)

\* _build_app_store_url; platform is "iphone" for the scrape, None for the report.
BuildAppStoreUrl(app_id, country_code, slug, language, platform) ==
    LET path_segment == IF slug # <<>> THEN <<"/">> \o slug \o <<"/id", app_id>>
                        ELSE <<"/id", app_id>>
        params == (IF language # <<>> THEN << <<"l=">> \o language >> ELSE <<>>)
                  \o (IF platform # <<>> THEN << <<"platform=">> \o platform >> ELSE <<>>)
        query == IF Len(params) = 0 THEN <<>>
                 ELSE IF Len(params) = 1 THEN <<"?">> \o params[1]
                 ELSE <<"?">> \o params[1] \o <<"&">> \o params[2]
    IN <<"https:", "//", "apps.apple.com", "/", country_code, "/app">> \o path_segment \o query

\* ------------------------------------------------------------------ the inputs

APP_ID == "1242"

\* A CDN image URL https://<host>/image/thumb/<name><size><ext>.
Shot(host, name, size, ext) == <<"https:", "//", host, "/image/thumb/", name, size, ext>>

\* A srcset of n entries "<url> <n>w" on names /s<from+1> .. /s<from+n>.
RECURSIVE LongSrcset(_, _)
LongSrcset(from, n) ==
    IF n = 0 THEN <<>>
    ELSE (IF n = 1 THEN <<>> ELSE LongSrcset(from, n - 1) \o <<",", " ">>)
         \o Shot("is.mzstatic.com", "/s" \o ToString(from + n), "/1290x2796bb", ".webp")
         \o <<" ", "1290", "w">>

Source(type, srcset, data_srcset) ==
    [type |-> type, srcset |-> srcset, data_srcset |-> data_srcset]

Img(src, data_src, data_lazy_src) ==
    [src |-> src, data_src |-> data_src, data_lazy_src |-> data_lazy_src]

\* An <img> that the img stage accepts; it is on every page whose earlier
\* stages find something, so that a stage running out of turn would show.
AnImg == Img(Shot("is.mzstatic.com", "/i", "/750x1334bb", ".jpg"), <<>>, <<>>)

\* No CDN image but the app icon: every stage comes up empty.
EmptyPage ==
    [pictures |-> <<>>, sources |-> <<>>, imgs |-> <<>>,
     script |-> <<"icon", " ", "\"">>
                \o <<"https:", "//", "is1-ssl.mzstatic.com", "/image/thumb/",
                     "/AppIcon-1x", "/512x512bb", ".png">>
                \o <<"\"">>]

\* JPEG sources with small-size srcsets: the strict stage finds /a and /b.
StrictPage ==
    [pictures |->
        << <<Source(<<"image/webp">>,
                    Shot("is1-ssl.mzstatic.com", "/a", "/300x650bb", ".webp")
                        \o <<" ", "300", "w">>, <<>>),
             Source(<<"image/jpeg">>,
                    Shot("is1-ssl.mzstatic.com", "/a", "/300x650bb", ".jpg")
                        \o <<" ", "300", "w", ",", " ">>
                        \o Shot("is1-ssl.mzstatic.com", "/a", "/600x1300bb", ".jpg")
                        \o <<" ", "750", "w">>, <<>>)>>,
           <<Source(<<"image/jpeg">>,
                    Shot("is1-ssl.mzstatic.com", "/a", "/300x650bb", ".jpg")
                        \o <<" ", "2", "x">>, <<>>)>>,
           <<Source(<<"image/jpeg">>, <<>>,
                    <<"//", "is1-ssl.mzstatic.com", "/image/thumb/", "/b", "/300x650bb", ".webp">>)>> >>,
     sources |-> <<>>, imgs |-> <<AnImg>>, script |-> <<>>]

\* A source without a JPEG type and with a large size: only the loose stage
\* (and the later ones) can use it.
LoosePage ==
    [pictures |-> << <<Source(<<"image/webp">>, LongSrcset(0, 2), <<>>)>> >>,
     sources |-> <<>>, imgs |-> <<AnImg>>, script |-> <<>>]

\* One picture whose first source alone fills the list and whose second
\* source holds one more image.
TwoSourcePage ==
    [pictures |-> << <<Source(<<"image/webp">>, LongSrcset(0, MaxShots), <<>>),
                      Source(<<"image/webp">>, LongSrcset(MaxShots, 1), <<>>)>> >>,
     sources |-> <<>>, imgs |-> <<>>, script |-> <<>>]

\* img elements only: a protocol-relative src, a lazy-loaded one, and one
\* whose src is a placeholder.
ImgPage ==
    [pictures |-> <<>>, sources |-> <<>>,
     imgs |-> <<Img(<<"//", "is.mzstatic.com", "/image/thumb/", "/d", "/750x1334bb", ".webp">>,
                    <<>>, <<>>),
                Img(<<>>, Shot("is.mzstatic.com", "/e", "/640x1136bb", ".jpg"), <<>>),
                Img(<<"data:image/gif">>, Shot("is.mzstatic.com", "/f", "/750x1334bb", ".jpg"),
                    <<>>)>>,
     script |-> <<>>]

\* A <source> outside any <picture>, on the CDN host the store really uses.
SourcePage ==
    [pictures |-> <<>>,
     sources |-> <<Source(<<>>, <<>>,
                          Shot("is1-ssl.mzstatic.com", "/g", "/1290x2796bb", ".webp")
                              \o <<" ", "3", "x", ",", " ">>
                              \o <<"http:", "//", "is1-ssl.mzstatic.com", "/image/thumb/", "/h",
                                   "/750x1334bb", ".jpg">>)>>,
     imgs |-> <<>>, script |-> <<>>]

\* Image URLs in script text only.
RegexPage ==
    [pictures |-> <<>>, sources |-> <<>>, imgs |-> <<>>,
     script |-> <<"\"">> \o Shot("is1-ssl.mzstatic.com", "/j", "/300x650bb", ".png")
                \o <<"\"", " ", "\"">>
                \o Shot("is1-ssl.mzstatic.com", "/AppIcon-1x", "/512x512bb", ".png")
                \o <<"\"", " ", "(">>
                \o Shot("is1-ssl.mzstatic.com", "/k", "/300x650bb", ".webp") \o <<")", ";">>]

\* A promotional image in a <picture>, in a WebP source at a screenshot size.
MarketingPicturePage ==
    [pictures |-> << <<Source(<<"image/webp">>,
                              Shot("is.mzstatic.com", "/marketing", "/1290x2796bb", ".webp")
                                  \o <<" ", "1290", "w">>, <<>>)>> >>,
     sources |-> <<>>, imgs |-> <<>>, script |-> <<>>]

\* A promotional image in script text only, and no other CDN image.
MarketingScriptPage ==
    [pictures |-> <<>>, sources |-> <<>>, imgs |-> <<>>,
     script |-> <<"\"">> \o Shot("is1-ssl.mzstatic.com", "/marketing", "/750x1334bb", ".png")
                \o <<"\"">>]

Pages == {EmptyPage, StrictPage, LoosePage, TwoSourcePage, ImgPage, SourcePage, RegexPage,
          MarketingPicturePage, MarketingScriptPage}
PlainPages == {EmptyPage, ImgPage}

Artwork(size) == <<"https:", "//", "is1-ssl.mzstatic.com", "/image/thumb/", "/icon", size, ".jpg">>

TrackViewUrl ==
    <<"https:", "//", "apps.apple.com", "/us", "/app/", "my-app", "/id", APP_ID, "?uo=4">>

Meta(screenshot_urls, a512, a100, a60, track_url, track_name) ==
    [screenshotUrls |-> screenshot_urls, artworkUrl512 |-> a512, artworkUrl100 |-> a100,
     artworkUrl60 |-> a60, trackViewUrl |-> track_url, trackName |-> track_name]

\* n distinct screenshot URLs /s1 .. /sn as the lookup returns them.
ApiShots(n) == [i \in 1..n |-> Shot("is1-ssl.mzstatic.com", "/s" \o ToString(i), "/392x696bb", ".jpg")]

NoShotsMeta == Meta(<<>>, <<>>, Artwork("/100x100bb"), Artwork("/60x60bb"), TrackViewUrl,
                    <<"My", " ", "App">>)
OneShotMeta == Meta(<< <<"//", "x.com", "/a", ".webp">> >>, Artwork("/512x512bb"),
                    Artwork("/100x100bb"), <<>>, TrackViewUrl, <<"My", " ", "App">>)
\* A URL given twice (once protocol-relative and as WEBP), one given with
\* http:// and one given as a path.
MixedMeta == Meta(<< <<"https:", "//", "x.com", "/a", ".jpg">>,
                     <<" ", "//", "x.com", "/a", ".webp">>,
                     <<"http:", "//", "x.com", "/b", ".jpg">>,
                     <<"/rel", "/c", ".jpg">> >>,
                  <<>>, <<>>, Artwork("/60x60bb"), <<>>, <<"My", " ", "App">>)
BlankMeta == Meta(<< <<>>, <<" ">> >>, <<>>, <<>>, <<>>, <<>>, <<>>)
ManyShotsMeta == Meta(ApiShots(MaxShots + 1), Artwork("/512x512bb"), <<>>, <<>>, TrackViewUrl, <<>>)

\* No 512 artwork, and the two smaller ones under names of their own.
ArtworkMeta ==
    Meta(<< <<"//", "x.com", "/a", ".webp">> >>, <<>>,
         <<"https:", "//", "is1-ssl.mzstatic.com", "/image/thumb/", "/icon100", "/100x100bb", ".jpg">>,
         <<"https:", "//", "is1-ssl.mzstatic.com", "/image/thumb/", "/icon60", "/60x60bb", ".jpg">>,
         TrackViewUrl, <<"My", " ", "App">>)

Metadatas == {NoShotsMeta, OneShotMeta, MixedMeta, BlankMeta, ManyShotsMeta, ArtworkMeta}
PlainMetadatas == {OneShotMeta}

Countries == {"us", "TR", "zz", ""}

\* The language_map argument: None, or country -> language with keys as given.
NoLanguages == <<>>
LanguageMaps ==
    {NoLanguages,
     << <<"TR", <<"EN", "-US">> >> >>,
     << <<"us", <<"ja">> >>, <<"zz", <<>> >> >>}

\* -------------------------------------------------------- sanitize_app_dir_name

\* Folder names are sequences of characters.  "U+FF0F" stands for the
\* fullwidth solidus, a character that NFKC turns into "/".

\* The characters str.strip() removes, of those the names here are made of.
WHITESPACE == {" ", "\t"}

\* The part of t from its first to its last position in keep, or from
\* position 1 when only the right end is stripped.
Kept(t, keep, both) ==
    IF keep = {} THEN <<>>
    ELSE SubSeq(t, IF both THEN CHOOSE i \in keep : \A j \in keep : i <= j ELSE 1,
                   CHOOSE i \in keep : \A j \in keep : i >= j)

\* s.strip(chars), and s.rstrip(chars)
StripChars(s, chars) ==
    Only({Only({Kept(t, keep, TRUE) : keep \in {{i \in 1..Len(t) : t[i] \notin chars}}}) :
             t \in {s}})

RStripChars(s, chars) ==
    Only({Only({Kept(t, keep, FALSE) : keep \in {{i \in 1..Len(t) : t[i] \notin chars}}}) :
             t \in {s}})

\* unicodedata.normalize("NFKC", s)
Nfkc(s) == [i \in 1..Len(s) |-> IF s[i] = "U+FF0F" THEN "/" ELSE s[i]]

\* [<>:"/\\|?*\x00-\x1F]
INVALID_PATH_CHARS == {"<", ">", ":", "\"", "/", "\\", "|", "?", "*", "\t"}

\* INVALID_PATH_CHARS.sub("_", s)
ReplaceInvalid(s) == [i \in 1..Len(s) |-> IF s[i] \in INVALID_PATH_CHARS THEN "_" ELSE s[i]]

\* s.upper()
Upper(s) ==
    [i \in 1..Len(s) |-> CASE s[i] = "c" -> "C" [] s[i] = "o" -> "O" [] s[i] = "n" -> "N"
                           [] s[i] = "a" -> "A" [] s[i] = "p" -> "P" [] OTHER -> s[i]]

WINDOWS_RESERVED_NAMES ==
    {<<"C", "O", "N">>, <<"P", "R", "N">>, <<"A", "U", "X">>, <<"N", "U", "L">>}
        \cup {<<"C", "O", "M", d>> : d \in {"1", "2", "3", "4", "5", "6", "7", "8", "9"}}
        \cup {<<"L", "P", "T", d>> : d \in {"1", "2", "3", "4", "5", "6", "7", "8", "9"}}

\* The longest folder name sanitize_app_dir_name means to return.
NAME_LIMIT == 200

\* a or b, on strings (None and "" are both falsy and both written <<>>).
Or(a, b) == IF a # <<>> THEN a ELSE b

\* "app", the name of last resort.
APP_DIR == <<"a", "p", "p">>

\* sanitized = sanitized[:200].rstrip(" .") or sanitized; return sanitized or "app"
CutName(sanitized) ==
    Or(Or(RStripChars(SubSeq(sanitized, 1, IF Len(sanitized) < NAME_LIMIT
                                           THEN Len(sanitized) ELSE NAME_LIMIT),
                      {" ", "."}),
          sanitized),
       APP_DIR)

\* if sanitized.upper() in WINDOWS_RESERVED_NAMES: sanitized = f"{sanitized}_app"
GuardReserved(sanitized) ==
    IF Upper(sanitized) \in WINDOWS_RESERVED_NAMES
    THEN sanitized \o <<"_", "a", "p", "p">>
    ELSE sanitized

\* sanitized = sanitized.strip().strip("."), and the fallback when that is empty
StripName(replaced, fallback) ==
    Only({IF stripped # <<>> THEN stripped
          ELSE Or(StripChars(StripChars(Or(fallback, APP_DIR), WHITESPACE), {"."}), APP_DIR) :
             stripped \in {StripChars(StripChars(replaced, WHITESPACE), {"."})}})

\* Each step's value is computed once and handed to the next step.
SanitizeAppDirName(value, fallback) ==
    Only({Only({Only({Only({Only({CutName(guarded) :
                                     guarded \in {GuardReserved(filled)}}) :
                               filled \in {StripName(replaced, fallback)}}) :
                         replaced \in {ReplaceInvalid(normalized)}}) :
                   normalized \in {Nfkc(candidate)}}) :
             candidate \in {StripChars(Or(Or(value, fallback), APP_DIR), WHITESPACE)}})

\* ------------------------------------------------------------------- the state

VARIABLES
    app_name,           \* run_download: the app name given or looked up
    name_fallback,      \* run_download: the fallback handed to sanitize_app_dir_name
    app_dir_name,       \* run_download: the folder of the report
    safe_app_dir,       \* download_assets_for_country: the folder of the country folders
    countries,          \* download_all_countries: the countries argument
    language_map,       \* download_all_countries: the language_map argument
    done_count,         \* how many countries the for loop has taken
    results,            \* download_all_countries: results
    pc,                 \* where the single flow of control is
    country_code,       \* download_assets_for_country: country_code
    language,           \* download_assets_for_country: the language argument
    metadata,           \* download_assets_for_country: the lookup's outcome
    lookups,            \* get_app_metadata: the requests made for this country
    logo_metadata,      \* download_logo: its metadata, after "metadata or await ..."
    shots_metadata,     \* download_screenshots: its metadata, after "metadata or await ..."
    resolved_language,  \* download_assets_for_country: resolved_language
    slug,               \* download_assets_for_country: slug
    logo_path,          \* download_assets_for_country: logo_path
    api_urls,           \* download_screenshots: api_urls
    scraped_urls,       \* download_screenshots: scraped_urls
    image_urls,         \* download_screenshots: image_urls
    shot_index,         \* download_screenshots: idx of the download loop
    downloaded_paths,   \* download_screenshots: downloaded_paths
    crawl,              \* the render of this country: none, ok, failed or raised
    html,               \* _scrape_screenshot_urls: result.html
    found_urls,         \* _scrape_screenshot_urls: image_urls
    stages_run,         \* the extraction stages that ran in this scrape, in order
    raised_at,          \* the place in the scrape where an exception was raised
    files,              \* the files written below the app directory
    failures,           \* downloads that failed while this country is processed
    requested_url,      \* download_file: the url of the latest call for this country
    success,            \* download_file: what the latest call for this country returned
    entries,            \* the entries of a srcset attribute, as the page's author wrote them
    candidates,         \* _parse_srcset: candidates
    pdf_output,         \* download: pdf_output, the path the summary shows (<<>> is None)
    saved_printed       \* download: "PDF report saved to ..." was printed

vars == <<app_name, name_fallback, app_dir_name, safe_app_dir, countries, language_map, done_count, results, pc, country_code, language,
          metadata, lookups, logo_metadata, shots_metadata, resolved_language, slug, logo_path,
          api_urls, scraped_urls,
          image_urls, shot_index, downloaded_paths, crawl, html, found_urls, stages_run,
          raised_at, files, failures, requested_url, success, entries,
          candidates, pdf_output, saved_printed>>

name_vars == <<app_name, name_fallback, app_dir_name, safe_app_dir>>
run_vars == <<name_vars, countries, language_map>>
srcset_vars == <<entries, candidates>>
report_vars == <<pdf_output, saved_printed>>
lookup_vars == <<lookups, logo_metadata, shots_metadata>>
country_vars == <<country_code, language, metadata, lookup_vars, resolved_language, slug, logo_path>>
shots_vars == <<api_urls, scraped_urls, image_urls, shot_index, downloaded_paths>>
scrape_vars == <<crawl, html, found_urls, stages_run, raised_at>>

\* A run over one country meets every lookup outcome and page of the model; a
\* run over several countries repeats the same steps per country and meets the
\* plain ones.
LookupOutcomes == IF Len(countries) <= 1 THEN Metadatas ELSE PlainMetadatas
RenderOutcomes == IF Len(countries) <= 1 THEN Pages ELSE PlainPages

\* The country lists of a run: every list of at most one country, the pairs
\* over an English and a non-English storefront, and the longer lists that
\* take the two storefronts in turn.
PlainCountries == {"us", "TR"}
CountryLists ==
    UNION {[1..n -> Countries] : n \in 0..1}
        \cup [1..2 -> PlainCountries]
        \cup UNION {{list \in [1..n -> PlainCountries] :
                        \A i \in 1..(n - 1) : list[i] # list[i + 1]} : n \in 3..MaxCountries}

\* The download flow runs under one plain app name; run_download has made the
\* report's folder name from it before download_all_countries is called.
PlainAppName == <<"a", "p", "p", "_", "a">>
AppIdFallback == <<"a", "p", "p", "_", "1", "2", "4", "2">>

Init ==
    /\ app_name = PlainAppName
    /\ name_fallback = AppIdFallback
    /\ app_dir_name = SanitizeAppDirName(PlainAppName, AppIdFallback)
    /\ safe_app_dir = <<>>
    /\ countries \in CountryLists
    /\ language_map \in LanguageMaps
    /\ done_count = 0
    /\ results = <<>>
    /\ pc = "loop"
    /\ country_code = ""
    /\ language = <<>>
    /\ metadata = None
    /\ lookups = 0
    /\ logo_metadata = None
    /\ shots_metadata = None
    /\ resolved_language = <<>>
    /\ slug = <<>>
    /\ logo_path = <<>>
    /\ api_urls = <<>>
    /\ scraped_urls = <<>>
    /\ image_urls = <<>>
    /\ shot_index = 0
    /\ downloaded_paths = <<>>
    /\ crawl = "none"
    /\ html = None
    /\ found_urls = <<>>
    /\ stages_run = <<>>
    /\ raised_at = "none"
    /\ files = {}
    /\ failures = 0
    /\ requested_url = <<>>
    /\ success = FALSE
    /\ entries = <<>>
    /\ candidates = <<>>
    /\ pdf_output = <<>>
    /\ saved_printed = FALSE

\* ------------------------------------------------------------ download_file

\* A URL aiohttp can request: absolute, with the http or https scheme.  For any
\* other URL session.get raises, which download_file catches.
Fetchable(url) == Len(url) >= 2 /\ url[1] \in {"https:", "http:"} /\ url[2] = "//"

LogoPath(cc) == <<cc, "/", "logo_", cc, ".jpg">>
ScreenshotPath(cc, n) == <<cc, "/", "screenshot_", ToString(n), ".jpg">>
DebugHtmlPath(cc) == <<cc, "/", "debug_html_full.txt">>
DebugUrlsPath(cc) == <<cc, "/", "debug_urls.txt">>

\* The ways a call of download_file ends: "saved" is status 200 with a body,
\* open() and f.write() done, return True; "failed" is a non-200 status, an
\* empty body, a timeout or an exception before open(), return False;
\* "write_failed" is an exception raised by f.write() or by closing the file
\* after open(filepath, 'wb') has made it, caught, return False.
DownloadOutcomes == {"saved", "failed", "write_failed"}
PlainDownloadOutcomes == {"saved", "failed"}

\* Runs over several countries meet the plain outcomes.
FileOutcomes == IF Len(countries) <= 1 THEN DownloadOutcomes ELSE PlainDownloadOutcomes

\* The value download_file returns.
Success(outcome) == outcome = "saved"

\* download_file(url, filepath) ending in outcome.
DownloadFile(url, filepath, outcome) ==
    /\ outcome # "failed" => Fetchable(url)
    /\ ~Success(outcome) => (~Fetchable(url) \/ failures < MaxFailures)
    /\ files' = IF outcome = "failed" THEN files ELSE files \cup {filepath}
    /\ failures' = IF ~Success(outcome) /\ Fetchable(url) THEN failures + 1 ELSE failures
    /\ requested_url' = url
    /\ success' = Success(outcome)

\* ------------------------------------------------------ download_all_countries

\* for country in countries: country_code, language; download_assets_for_country
\* begins: safe_app_dir is computed and country_dir is made.
NextCountry ==
    /\ pc = "loop"
    /\ done_count < Len(countries)
    /\ country_code' = CountryCode(countries[done_count + 1])
    /\ language' = MapLanguage(language_map, CountryCode(countries[done_count + 1]))
    /\ safe_app_dir' = SanitizeAppDirName(app_dir_name, <<>>)
    /\ pc' = "lookup"
    /\ UNCHANGED <<app_name, name_fallback, app_dir_name, countries, language_map, report_vars, srcset_vars,
                   requested_url, success, done_count, results, metadata, lookup_vars,
                   resolved_language, slug, logo_path, shots_vars, scrape_vars, files, failures>>

\* return results
Return ==
    /\ pc = "loop"
    /\ done_count = Len(countries)
    /\ pc' = "done"
    /\ UNCHANGED <<run_vars, report_vars, srcset_vars, requested_url, success, done_count, results, country_vars, shots_vars, scrape_vars,
                   files, failures>>

\* ------------------------------------------------- download_assets_for_country

\* metadata = await self.get_app_metadata(...): the first result, or None when
\* there is none, the status is not 200 or the request raises; then
\* resolved_language and slug.
GetAppMetadata ==
    /\ pc = "lookup"
    /\ \E outcome \in LookupOutcomes \cup {None} :
          /\ metadata' = outcome
          /\ slug' = ExtractSlug(outcome)
    /\ lookups' = 1
    /\ resolved_language' = ResolveLanguage(country_code, language)
    /\ pc' = "logo"
    /\ UNCHANGED <<run_vars, report_vars, srcset_vars, requested_url, success, done_count, results, country_code,
                   language, logo_metadata, shots_metadata, logo_path, shots_vars, scrape_vars,
                   files, failures>>

\* What a lookup that download_logo or download_screenshots makes for itself
\* can answer; runs over several countries meet the plain answer.
RetryOutcomes == IF Len(countries) <= 1 THEN PlainMetadatas \cup {None} ELSE {None}

\* metadata = metadata or await self.get_app_metadata(app_id, country): the
\* metadata handed in when there is one, else the answer of one more lookup.
OwnMetadata(given) == IF given # None THEN {given} ELSE RetryOutcomes

\* A choice of artwork that prefers the smallest.
ArtworkUrlSmallestFirst(meta) ==
    IF meta.artworkUrl60 # <<>> THEN meta.artworkUrl60
    ELSE IF meta.artworkUrl100 # <<>> THEN meta.artworkUrl100
    ELSE meta.artworkUrl512

\* metadata.get("artworkUrl512") or ...("artworkUrl100") or ...("artworkUrl60")
ArtworkUrl(meta) ==
    IF meta.artworkUrl512 # <<>> THEN meta.artworkUrl512
    ELSE IF meta.artworkUrl100 # <<>> THEN meta.artworkUrl100
    ELSE meta.artworkUrl60

\* download_logo
DownloadLogo ==
    /\ pc = "logo"
    /\ \E own \in OwnMetadata(metadata) :
          /\ logo_metadata' = own
          /\ IF own = None \/ ArtworkUrl(own) = <<>>
             THEN /\ logo_path' = <<>>
                  /\ UNCHANGED <<files, failures, requested_url, success>>
             ELSE \E outcome \in FileOutcomes :
                     /\ DownloadFile(ForceSize(ArtworkUrl(own), "/512x512bb"),
                                     LogoPath(country_code), outcome)
                     /\ logo_path' = IF Success(outcome) THEN LogoPath(country_code) ELSE <<>>
    /\ lookups' = IF metadata = None THEN lookups + 1 ELSE lookups
    /\ pc' = "api"
    /\ UNCHANGED <<run_vars, report_vars, srcset_vars, done_count, results, country_code, language, metadata,
                   shots_metadata, resolved_language, slug, shots_vars, scrape_vars>>

\* ---------------------------------------------------------- download_screenshots

\* metadata, api_urls, skip_api and need_scrape.
CollectApiUrls ==
    /\ pc = "api"
    /\ \E own \in OwnMetadata(metadata) :
          /\ shots_metadata' = own
          /\ api_urls' = ApiUrls(own)
          /\ pc' = IF NeedScrape(resolved_language, ApiUrls(own)) THEN "render" ELSE "merge"
    /\ lookups' = IF metadata = None THEN lookups + 1 ELSE lookups
    /\ UNCHANGED <<run_vars, report_vars, srcset_vars, requested_url, success, done_count, results, country_code,
                   language, metadata, logo_metadata, resolved_language, slug, logo_path,
                   scraped_urls, image_urls, shot_index, downloaded_paths, scrape_vars, files,
                   failures>>

\* image_urls is chosen; with none, download_screenshots returns [].
MergeUrls ==
    /\ pc = "merge"
    /\ image_urls' = Merge(SkipApi(resolved_language), api_urls, scraped_urls)
    /\ pc' = IF Merge(SkipApi(resolved_language), api_urls, scraped_urls) = <<>>
             THEN "finish" ELSE "download"
    /\ UNCHANGED <<run_vars, report_vars, srcset_vars, requested_url, success, done_count, results, country_vars, api_urls, scraped_urls,
                   shot_index, downloaded_paths, scrape_vars, files, failures>>

\* A loop that numbers the files by the count of those saved so far.
DownloadShotPacked ==
    /\ pc = "download"
    /\ \E outcome \in FileOutcomes :
          /\ DownloadFile(image_urls[shot_index + 1],
                          ScreenshotPath(country_code, Len(downloaded_paths) + 1), outcome)
          /\ downloaded_paths' =
                IF Success(outcome)
                THEN Append(downloaded_paths,
                            ScreenshotPath(country_code, Len(downloaded_paths) + 1))
                ELSE downloaded_paths
    /\ shot_index' = shot_index + 1
    /\ pc' = IF shot_index + 1 = Len(image_urls) THEN "finish" ELSE "download"
    /\ UNCHANGED <<run_vars, report_vars, srcset_vars, done_count, results, country_vars, api_urls, scraped_urls,
                   image_urls, scrape_vars>>

\* One turn of "for idx, img_url in enumerate(image_urls)".
DownloadShot ==
    /\ pc = "download"
    /\ \E outcome \in FileOutcomes :
          /\ DownloadFile(image_urls[shot_index + 1],
                          ScreenshotPath(country_code, shot_index + 1), outcome)
          /\ downloaded_paths' =
                IF Success(outcome)
                THEN Append(downloaded_paths, ScreenshotPath(country_code, shot_index + 1))
                ELSE downloaded_paths
    /\ shot_index' = shot_index + 1
    /\ pc' = IF shot_index + 1 = Len(image_urls) THEN "finish" ELSE "download"
    /\ UNCHANGED <<run_vars, report_vars, srcset_vars, done_count, results, country_vars, api_urls, scraped_urls,
                   image_urls, scrape_vars>>

\* download_assets_for_country returns its dict and download_all_countries
\* appends it; the locals of the call are gone.
CountryResult ==
    [country |-> country_code,
     language |-> resolved_language,
     app_store_url |-> BuildAppStoreUrl(APP_ID, country_code, slug, resolved_language, <<>>),
     logo_path |-> logo_path,
     screenshot_paths |-> downloaded_paths,
     screenshot_count |-> Len(downloaded_paths)]

\* A loop that takes the next country right after the append.
FinishCountryWithoutSleep ==
    /\ pc = "finish"
    /\ results' = Append(results, CountryResult)
    /\ done_count' = done_count + 1
    /\ pc' = "loop"
    /\ UNCHANGED <<run_vars, report_vars, srcset_vars, requested_url, success, country_vars, shots_vars, scrape_vars, files, failures>>

\* A download_assets_for_country whose locals outlive the call.
FinishCountryKeepsLocals ==
    /\ pc = "finish"
    /\ results' = Append(results, CountryResult)
    /\ done_count' = done_count + 1
    /\ pc' = "sleep"
    /\ UNCHANGED <<run_vars, report_vars, srcset_vars, requested_url, success, country_vars, shots_vars, scrape_vars,
                   files, failures>>

FinishCountry ==
    /\ pc = "finish"
    /\ results' = Append(results, CountryResult)
    /\ done_count' = done_count + 1
    /\ pc' = "sleep"
    /\ country_code' = ""
    /\ language' = <<>>
    /\ metadata' = None
    /\ lookups' = 0
    /\ logo_metadata' = None
    /\ shots_metadata' = None
    /\ resolved_language' = <<>>
    /\ slug' = <<>>
    /\ logo_path' = <<>>
    /\ api_urls' = <<>>
    /\ scraped_urls' = <<>>
    /\ image_urls' = <<>>
    /\ shot_index' = 0
    /\ downloaded_paths' = <<>>
    /\ crawl' = "none"
    /\ html' = None
    /\ found_urls' = <<>>
    /\ stages_run' = <<>>
    /\ raised_at' = "none"
    /\ failures' = 0
    /\ requested_url' = <<>>
    /\ success' = FALSE
    /\ UNCHANGED <<run_vars, report_vars, srcset_vars, files>>

\* await asyncio.sleep(2)
Sleep ==
    /\ pc = "sleep"
    /\ pc' = "loop"
    /\ UNCHANGED <<run_vars, report_vars, srcset_vars, requested_url, success, done_count, results, country_vars, shots_vars, scrape_vars,
                   files, failures>>

\* ------------------------------------------------------------------ run_download

\* json_output = output_dir / app_dir_name / "download_report.json"
ReportPath == <<"download_report.json">>

\* pdf_output = output_dir / app_dir_name / "assets_report.pdf"
PdfPath == <<"assets_report.pdf">>

\* has_any_asset = any(result.get("logo_path") or
\* result.get("screenshot_paths") for result in results)
HasAnyAsset ==
    \E i \in 1..Len(results) :
        results[i].logo_path # <<>> \/ results[i].screenshot_paths # <<>>

\* with open(json_output, "w") as f: json.dump(report_data, f); f.write("\n").
\* The file is closed when the block is left; then "pdf_output = None" and,
\* under "if not no_pdf", pdf_output = app_dir / "assets_report.pdf".
WriteReport ==
    /\ pc = "done"
    /\ files' = files \cup {ReportPath}
    /\ \E no_pdf \in BOOLEAN :
          /\ pc' = IF no_pdf THEN "end" ELSE "pdf"
          /\ pdf_output' = IF no_pdf THEN <<>> ELSE PdfPath
    /\ UNCHANGED <<run_vars, saved_printed, srcset_vars, requested_url, success, done_count, results, country_vars, shots_vars,
                   scrape_vars, failures>>

\* create_pdf_report(...) returns: without a file when no country has an
\* asset, and after c.save() otherwise. The caller's next line prints
\* "PDF report saved to {pdf_output}" and leaves pdf_output as it is.
CreatePdfReport ==
    /\ pc = "pdf"
    /\ files' = IF HasAnyAsset THEN files \cup {PdfPath} ELSE files
    /\ saved_printed' = TRUE
    /\ pc' = "end"
    /\ UNCHANGED <<run_vars, pdf_output, srcset_vars, requested_url, success, done_count, results, country_vars, shots_vars,
                   scrape_vars, failures>>

\* A PDF failure that nothing catches: the run ends with the exception.
PdfRaisesUncaught ==
    /\ pc = "pdf"
    /\ HasAnyAsset
    /\ pc' = "crashed"
    /\ UNCHANGED <<run_vars, report_vars, srcset_vars, requested_url, success, done_count, results, country_vars, shots_vars,
                   scrape_vars, files, failures>>

\* create_pdf_report(...) raises while it draws the PDF: control goes to
\* "except Exception as exc".
PdfRaises ==
    /\ pc = "pdf"
    /\ HasAnyAsset
    /\ pc' = "pdf_error"
    /\ UNCHANGED <<run_vars, report_vars, srcset_vars, requested_url, success, done_count, results, country_vars, shots_vars,
                   scrape_vars, files, failures>>

\* except Exception as exc: console.print("PDF creation failed: ...");
\* pdf_output = None; the run goes on to its summary.
PdfErrorReported ==
    /\ pc = "pdf_error"
    /\ pdf_output' = <<>>
    /\ pc' = "end"
    /\ UNCHANGED <<run_vars, saved_printed, srcset_vars, requested_url, success, done_count, results, country_vars, shots_vars,
                   scrape_vars, files, failures>>

\* The summary's row: "Report PDF": str(pdf_output) if pdf_output else "Skipped".
SummaryReportPdf == IF pdf_output # <<>> THEN pdf_output ELSE <<"Skipped">>

\* ------------------------------------------------------ _scrape_screenshot_urls

\* crawler.arun(...) returns with result.success: the page is parsed.
RenderOk ==
    /\ pc = "render"
    /\ \E page \in RenderOutcomes : html' = page
    /\ crawl' = "ok"
    /\ pc' = "strict"
    /\ UNCHANGED <<run_vars, report_vars, srcset_vars, requested_url, success, done_count, results, country_vars, shots_vars, found_urls,
                   stages_run, raised_at, files, failures>>

\* A failed render whose page is scanned all the same.
RenderFailsRunsStages ==
    /\ pc = "render"
    /\ crawl' = "failed"
    /\ html' = EmptyPage
    /\ pc' = "strict"
    /\ UNCHANGED <<run_vars, report_vars, srcset_vars, requested_url, success, done_count, results, country_vars, shots_vars, found_urls,
                   stages_run, raised_at, files, failures>>

\* if not result.success: return []
RenderFails ==
    /\ pc = "render"
    /\ crawl' = "failed"
    /\ scraped_urls' = <<>>
    /\ pc' = "merge"
    /\ UNCHANGED <<run_vars, report_vars, srcset_vars, requested_url, success, done_count, results, country_vars, api_urls, image_urls,
                   shot_index, downloaded_paths, html, found_urls, stages_run, raised_at,
                   files, failures>>

\* A cascade whose stages are not guarded: every stage runs.
StageRunsAlways(urls) == TRUE

\* "if not image_urls:" before each stage but the first.
StageRuns(urls) == urls = <<>>

\* The places of the scrape where code runs that can raise: the crawl and the
\* parse, a stage that runs, the debug dump.
CanRaise ==
    \/ pc \in {"render", "strict"}
    \/ pc \in {"loose", "img", "source", "regex", "debug"} /\ StageRuns(found_urls)

\* A scrape without its handler: the exception leaves the call.
ScrapeRaisesUncaught ==
    /\ CanRaise
    /\ raised_at' = pc
    /\ pc' = "raised"
    /\ UNCHANGED <<run_vars, report_vars, srcset_vars, requested_url, success, done_count, results, country_vars, shots_vars, crawl, html,
                   found_urls, stages_run, files, failures>>

\* except Exception as error: return [] -- the one handler around the crawl,
\* the parse, every stage and the debug dump.
ScrapeRaises ==
    /\ CanRaise
    /\ raised_at' = pc
    /\ crawl' = IF pc = "render" THEN "raised" ELSE crawl
    /\ scraped_urls' = <<>>
    /\ pc' = "merge"
    /\ UNCHANGED <<run_vars, report_vars, srcset_vars, requested_url, success, done_count, results, country_vars, api_urls, image_urls,
                   shot_index, downloaded_paths, html, found_urls, stages_run, files,
                   failures>>

\* The strict stage always runs on a parsed page.
StrictScan ==
    /\ pc = "strict"
    /\ found_urls' = StrictStage(html)
    /\ stages_run' = Append(stages_run, "strict")
    /\ pc' = "loose"
    /\ UNCHANGED <<run_vars, report_vars, srcset_vars, requested_url, success, done_count, results, country_vars, shots_vars, crawl, html,
                   raised_at, files, failures>>

LooseScan ==
    /\ pc = "loose"
    /\ IF StageRuns(found_urls)
       THEN /\ found_urls' = LooseStage(html, found_urls)
            /\ stages_run' = Append(stages_run, "loose")
       ELSE UNCHANGED <<found_urls, stages_run>>
    /\ pc' = "img"
    /\ UNCHANGED <<run_vars, report_vars, srcset_vars, requested_url, success, done_count, results, country_vars, shots_vars, crawl, html,
                   raised_at, files, failures>>

ImgScan ==
    /\ pc = "img"
    /\ IF StageRuns(found_urls)
       THEN /\ found_urls' = ImgStage(html, found_urls)
            /\ stages_run' = Append(stages_run, "img")
       ELSE UNCHANGED <<found_urls, stages_run>>
    /\ pc' = "source"
    /\ UNCHANGED <<run_vars, report_vars, srcset_vars, requested_url, success, done_count, results, country_vars, shots_vars, crawl, html,
                   raised_at, files, failures>>

SourceScan ==
    /\ pc = "source"
    /\ IF StageRuns(found_urls)
       THEN /\ found_urls' = SourceStage(html, found_urls)
            /\ stages_run' = Append(stages_run, "source")
       ELSE UNCHANGED <<found_urls, stages_run>>
    /\ pc' = "regex"
    /\ UNCHANGED <<run_vars, report_vars, srcset_vars, requested_url, success, done_count, results, country_vars, shots_vars, crawl, html,
                   raised_at, files, failures>>

RegexScan ==
    /\ pc = "regex"
    /\ IF StageRuns(found_urls)
       THEN /\ found_urls' = RegexStage(html, found_urls)
            /\ stages_run' = Append(stages_run, "regex")
       ELSE UNCHANGED <<found_urls, stages_run>>
    /\ pc' = "debug"
    /\ UNCHANGED <<run_vars, report_vars, srcset_vars, requested_url, success, done_count, results, country_vars, shots_vars, crawl, html,
                   raised_at, files, failures>>

\* A scrape that returns without its debug dump.
ScrapeReturnWithoutDump ==
    /\ pc = "debug"
    /\ scraped_urls' = found_urls
    /\ pc' = "merge"
    /\ UNCHANGED <<run_vars, report_vars, srcset_vars, requested_url, success, done_count, results, country_vars, api_urls, image_urls,
                   shot_index, downloaded_paths, scrape_vars, files, failures>>

\* if not image_urls: write the two debug files, return []; else return image_urls
ScrapeReturn ==
    /\ pc = "debug"
    /\ files' = IF found_urls = <<>>
                THEN files \cup {DebugHtmlPath(country_code), DebugUrlsPath(country_code)}
                ELSE files
    /\ scraped_urls' = found_urls
    /\ pc' = "merge"
    /\ UNCHANGED <<run_vars, report_vars, srcset_vars, requested_url, success, done_count, results, country_vars, api_urls, image_urls,
                   shot_index, downloaded_paths, scrape_vars, failures>>

\* ------------------------------------------------------------ the specification

Next ==
    \/ NextCountry
    \/ Return
    \/ GetAppMetadata
    \/ DownloadLogo
    \/ CollectApiUrls
    \/ RenderOk
    \/ RenderFails
    \/ ScrapeRaises
    \/ StrictScan
    \/ LooseScan
    \/ ImgScan
    \/ SourceScan
    \/ RegexScan
    \/ ScrapeReturn
    \/ MergeUrls
    \/ DownloadShot
    \/ FinishCountry
    \/ Sleep
    \/ WriteReport
    \/ CreatePdfReport
    \/ PdfRaises
    \/ PdfErrorReported

Spec == Init /\ [][Next]_vars

\* Every await of the flow returns (each network call and the render have a
\* timeout), so the flow always takes its next step.
FairSpec == Spec /\ WF_vars(Next)

\* ---------------------------------------------- _parse_srcset on its own inputs

\* Longest srcset, in entries, that the calls below are given.
MaxEntries == 2

\* The URLs of srcset entries, each with what str.strip, the "//" rule and the
\* WEBP rule make of it, and whether the result starts with "http".
UrlCases ==
    {[given |-> Shot("is1-ssl.mzstatic.com", "/a", "/300x650bb", ".jpg"),
      normalized |-> <<"https:", "//", "is1-ssl.mzstatic.com", "/image/thumb/", "/a",
                       "/300x650bb", ".jpg">>,
      kept |-> TRUE],
     [given |-> Shot("is1-ssl.mzstatic.com", "/b", "/600x1300bb", ".webp"),
      normalized |-> <<"https:", "//", "is1-ssl.mzstatic.com", "/image/thumb/", "/b",
                       "/600x1300bb", ".jpg">>,
      kept |-> TRUE],
     [given |-> <<"//", "is1-ssl.mzstatic.com", "/image/thumb/", "/c", "/300x650bb", ".jpg">>,
      normalized |-> <<"https:", "//", "is1-ssl.mzstatic.com", "/image/thumb/", "/c",
                       "/300x650bb", ".jpg">>,
      kept |-> TRUE],
     [given |-> <<"/rel", "/c", ".jpg">>,
      normalized |-> <<"/rel", "/c", ".jpg">>,
      kept |-> FALSE]}

\* The descriptors of srcset entries, each with the score the claim gives it.
DescriptorCases ==
    {[given |-> <<>>, score |-> 0],
     [given |-> <<"hd">>, score |-> 0],
     [given |-> <<"750", "w">>, score |-> 750],
     [given |-> <<"1242", "w">>, score |-> 1242],
     [given |-> <<"2", "x">>, score |-> 2000]}

\* An entry between two commas that holds nothing.
BlankEntry == [url |-> [given |-> <<>>, normalized |-> <<>>, kept |-> FALSE],
               descriptor |-> [given |-> <<>>, score |-> 0]]

Entries == [url : UrlCases, descriptor : DescriptorCases] \cup {BlankEntry}

EntryLists == UNION {[1..n -> Entries] : n \in 0..MaxEntries}

\* "<url> <descriptor>" as it stands in the attribute.
EntryText(entry) ==
    entry.url.given
        \o (IF entry.descriptor.given # <<>> THEN <<" ">> \o entry.descriptor.given ELSE <<>>)

\* The srcset attribute: the entries joined by ", ".
RECURSIVE SrcsetText(_)
SrcsetText(es) ==
    IF es = <<>> THEN <<>>
    ELSE IF Len(es) = 1 THEN EntryText(es[1])
    ELSE EntryText(es[1]) \o <<",", " ">> \o SrcsetText(Tail(es))

\* A page of one <picture> with one JPEG <source> that has this srcset.
OneSourcePage(srcset) ==
    [pictures |-> << <<Source(<<"image/jpeg">>, srcset, <<>>)>> >>,
     sources |-> <<>>, imgs |-> <<>>, script |-> <<>>]

\* Before the calls: nothing has run, the srcset is any of the lists.
SrcsetInit ==
    /\ entries \in EntryLists
    /\ app_name = <<>>
    /\ name_fallback = <<>>
    /\ app_dir_name = <<>>
    /\ safe_app_dir = <<>>
    /\ candidates = <<>>
    /\ pdf_output = <<>>
    /\ saved_printed = FALSE
    /\ pc = "srcset"
    /\ countries = <<>>
    /\ language_map = NoLanguages
    /\ done_count = 0
    /\ results = <<>>
    /\ country_code = ""
    /\ language = <<>>
    /\ metadata = None
    /\ lookups = 0
    /\ logo_metadata = None
    /\ shots_metadata = None
    /\ resolved_language = <<>>
    /\ slug = <<>>
    /\ logo_path = <<>>
    /\ api_urls = <<>>
    /\ scraped_urls = <<>>
    /\ image_urls = <<>>
    /\ shot_index = 0
    /\ downloaded_paths = <<>>
    /\ crawl = "none"
    /\ html = None
    /\ found_urls = <<>>
    /\ stages_run = <<>>
    /\ raised_at = "none"
    /\ files = {}
    /\ failures = 0
    /\ requested_url = <<>>
    /\ success = FALSE

\* candidates = self._parse_srcset(srcset)
ParseSrcsetCall ==
    /\ pc = "srcset"
    /\ candidates' = ParseSrcset(SrcsetText(entries))
    /\ pc' = "parsed"
    /\ UNCHANGED <<run_vars, report_vars, entries, requested_url, success, done_count, results, country_vars,
                   shots_vars, scrape_vars, files, failures>>

\* The strict stage on a page whose one JPEG source has the srcset.
StrictSourceCall ==
    /\ pc = "parsed"
    /\ html' = OneSourcePage(SrcsetText(entries))
    /\ found_urls' = StrictStage(OneSourcePage(SrcsetText(entries)))
    /\ stages_run' = <<"strict">>
    /\ pc' = "picked"
    /\ UNCHANGED <<run_vars, report_vars, srcset_vars, requested_url, success, done_count, results, country_vars,
                   shots_vars, crawl, raised_at, files, failures>>

SrcsetNext == ParseSrcsetCall \/ StrictSourceCall

SrcsetSpec == SrcsetInit /\ [][SrcsetNext]_vars

\* ------------------------------------- sanitize_app_dir_name on its own inputs

\* Longest name, in characters, of those enumerated in full.
MaxNameLen == 3

NameChars == {"C", "O", "N", "c", " ", ".", "/"}

\* A name of n times the character ch.
Repeat(ch, n) == [i \in 1..n |-> ch]

\* Every name of up to MaxNameLen characters, and longer ones: a reserved name
\* with a space and a dot after it, names around the length limit, a control
\* character and a fullwidth slash inside a name.
Names ==
    UNION {[1..n -> NameChars] : n \in 0..MaxNameLen}
        \cup {<<"C", "O", "N", " ", ".">>, <<"c", "o", "n", ".">>,
              Repeat("a", NAME_LIMIT), Repeat("a", NAME_LIMIT + 1),
              Repeat("a", NAME_LIMIT - 1) \o <<".", "b">>,
              <<".">> \o Repeat(" ", NAME_LIMIT) \o <<"a">>,
              <<"a", "\t", "b">>, <<"a", "U+FF0F", "b">>, <<"a", ".", "b">>}

Fallbacks == {<<>>, AppIdFallback, <<"a", "/", "b">>, <<"C", "O", "N">>, <<" ", ".">>}

SanitizeInit ==
    /\ app_name \in Names
    /\ name_fallback \in Fallbacks
    /\ app_dir_name = <<>>
    /\ safe_app_dir = <<>>
    /\ pc = "name"
    /\ entries = <<>>
    /\ candidates = <<>>
    /\ pdf_output = <<>>
    /\ saved_printed = FALSE
    /\ countries = <<>>
    /\ language_map = NoLanguages
    /\ done_count = 0
    /\ results = <<>>
    /\ country_code = ""
    /\ language = <<>>
    /\ metadata = None
    /\ lookups = 0
    /\ logo_metadata = None
    /\ shots_metadata = None
    /\ resolved_language = <<>>
    /\ slug = <<>>
    /\ logo_path = <<>>
    /\ api_urls = <<>>
    /\ scraped_urls = <<>>
    /\ image_urls = <<>>
    /\ shot_index = 0
    /\ downloaded_paths = <<>>
    /\ crawl = "none"
    /\ html = None
    /\ found_urls = <<>>
    /\ stages_run = <<>>
    /\ raised_at = "none"
    /\ files = {}
    /\ failures = 0
    /\ requested_url = <<>>
    /\ success = FALSE

\* run_download: app_dir_name = sanitize_app_dir_name(app_name, fallback=...)
SanitizeCall ==
    /\ pc = "name"
    /\ app_dir_name' = SanitizeAppDirName(app_name, name_fallback)
    /\ pc' = "named"
    /\ UNCHANGED <<app_name, name_fallback, safe_app_dir, countries, language_map, report_vars, srcset_vars,
                   requested_url, success, done_count, results, country_vars, shots_vars,
                   scrape_vars, files, failures>>

\* download_assets_for_country: safe_app_dir = sanitize_app_dir_name(app_name),
\* where app_name is the app_dir_name that run_download passed on.
SanitizeAgain ==
    /\ pc = "named"
    /\ safe_app_dir' = SanitizeAppDirName(app_dir_name, <<>>)
    /\ pc' = "resanitized"
    /\ UNCHANGED <<app_name, name_fallback, app_dir_name, countries, language_map, report_vars, srcset_vars,
                   requested_url, success, done_count, results, country_vars, shots_vars,
                   scrape_vars, files, failures>>

SanitizeNext == SanitizeCall \/ SanitizeAgain

SanitizeSpec == SanitizeInit /\ [][SanitizeNext]_vars

\* ------------------------------------------------------------------ the claims

\* download_screenshots has chosen image_urls, the list it downloads.
Resolved == pc \in {"download", "finish"}

\* _scrape_screenshot_urls has returned to download_screenshots.
Scraped == pc = "merge" /\ crawl # "none"

\* A language that is given and does not start with "en", whatever its case.
NonEnglish(lang) == lang # <<>> /\ LowerLex(lang[1]) # "en"

NoDuplicates(urls) == \A i, j \in 1..Len(urls) : urls[i] = urls[j] => i = j

STAGE_ORDER == <<"strict", "loose", "img", "source", "regex">>

\* What one stage finds on a page when it starts from an empty list.
StageOutput(stage, page) ==
    CASE stage = "strict" -> StrictStage(page)
      [] stage = "loose" -> LooseStage(page, <<>>)
      [] stage = "img" -> ImgStage(page, <<>>)
      [] stage = "source" -> SourceStage(page, <<>>)
      [] stage = "regex" -> RegexStage(page, <<>>)

\* The output of the first stage, in the fixed order, that finds a URL.
FirstProductive(page) ==
    LET productive == {i \in 1..Len(STAGE_ORDER) : StageOutput(STAGE_ORDER[i], page) # <<>>}
    IN IF productive = {} THEN <<>>
       ELSE StageOutput(STAGE_ORDER[CHOOSE i \in productive : \A j \in productive : i <= j],
                        page)

\* C1 (as claimed): the list the scrape returns and the list that
\* download_screenshots downloads never hold more than 10 URLs.
C1_AtMostTenUrls ==
    /\ Scraped => Len(scraped_urls) <= MaxShots
    /\ Resolved => Len(image_urls) <= MaxShots

\* C2 (as claimed): the list that download_screenshots downloads holds each
\* URL at most once, in every merge branch.
C2_ResolvedUrlsUnique == Resolved => NoDuplicates(image_urls)

\* C3 (as claimed): every URL of the list that download_screenshots downloads
\* begins with "https://".
C3_ResolvedUrlsAreHttps ==
    Resolved => \A i \in 1..Len(image_urls) : StartsWith(image_urls[i], <<"https:", "//">>)

\* C4: the stages run in the fixed order strict, loose, img, source, regex; a
\* stage runs only if every earlier stage found nothing on the page; a scrape
\* that rendered and did not raise returns exactly the output of the first
\* stage that finds a URL.
C4_FirstProductiveStageWins ==
    /\ Len(stages_run) <= Len(STAGE_ORDER)
    /\ \A i \in 1..Len(stages_run) :
          /\ stages_run[i] = STAGE_ORDER[i]
          /\ \A j \in 1..(i - 1) : StageOutput(STAGE_ORDER[j], html) = <<>>
    /\ (Scraped /\ crawl = "ok" /\ raised_at = "none")
          => scraped_urls = FirstProductive(html)

\* C4's case: the img stage supplied the result after two empty stages, and the
\* regex stage, which would have found URLs too, did not run.
C4_Witness ==
    /\ Scraped /\ crawl = "ok" /\ raised_at = "none"
    /\ stages_run = <<"strict", "loose", "img">>
    /\ scraped_urls # <<>>
    /\ RegexStage(html, <<>>) # <<>>

\* C5 (as claimed): with no language override and API screenshot URLs, the
\* resolved list is the API URLs and no page is rendered, whatever the country.
C5_NoOverrideUsesApi ==
    (Resolved /\ language = <<>> /\ ApiUrls(metadata) # <<>>)
        => (image_urls = DictFromKeys(ApiUrls(metadata)) /\ crawl = "none")

\* C5 (amended): what decides is the resolved language, the override or else
\* the country's own language.  With API screenshot URLs and a resolved
\* language that is English the resolved list is the API URLs and no page is
\* rendered; with no override in a country whose own language is not English
\* the page is rendered although the API gave URLs.
C5_ApiSkippedByResolvedLanguage ==
    (Resolved /\ ApiUrls(metadata) # <<>>)
        => /\ resolved_language = (IF language # <<>> THEN language
                                   ELSE CountryLanguage(country_code))
           /\ ~NonEnglish(resolved_language)
                 => (image_urls = DictFromKeys(ApiUrls(metadata)) /\ crawl = "none")
           /\ (language = <<>> /\ NonEnglish(CountryLanguage(country_code)))
                 => crawl # "none"

\* C5's case: Turkey without an override, the API gave URLs, and the page was
\* rendered and its URLs replaced the API's.
C5_Witness ==
    /\ Resolved /\ country_code = "tr" /\ language = <<>>
    /\ ApiUrls(metadata) # <<>>
    /\ crawl = "ok" /\ image_urls = scraped_urls /\ image_urls # ApiUrls(metadata)

\* C6: with a non-English language and a scrape that returned URLs, the
\* resolved list is the scraped list, whatever the API gave.
C6_NonEnglishScrapeOnly ==
    (Resolved /\ NonEnglish(resolved_language) /\ scraped_urls # <<>>)
        => image_urls = scraped_urls

\* C6's case: the API gave a URL that the scrape did not find.
C6_Witness ==
    /\ Resolved /\ NonEnglish(resolved_language) /\ scraped_urls # <<>>
    /\ \E i \in 1..Len(api_urls) : api_urls[i] \notin Range(scraped_urls)

\* C7: with a non-English language, a scrape that returned nothing and
\* screenshotUrls in the metadata, the resolved list is the normalized API URLs.
C7_NonEnglishFallsBackToApi ==
    (Resolved /\ NonEnglish(resolved_language) /\ scraped_urls = <<>>
         /\ metadata # None /\ metadata.screenshotUrls # <<>>)
        => image_urls = ApiUrls(metadata)

\* C7's case: the img stage raised, so the scrape returned nothing, and the
\* API's URLs are the resolved list.
C7_Witness ==
    /\ Resolved /\ NonEnglish(resolved_language) /\ scraped_urls = <<>>
    /\ image_urls # <<>> /\ image_urls = ApiUrls(metadata)
    /\ raised_at = "img"

\* C8 (as claimed): with no language or an English one and a non-empty
\* screenshotUrls, the resolved list is the normalized first 10 screenshotUrls.
C8_EnglishUsesApi ==
    (Resolved /\ ~NonEnglish(resolved_language)
         /\ metadata # None /\ metadata.screenshotUrls # <<>>)
        => image_urls = DictFromKeys(ApiUrls(metadata))

\* C8 (amended): ... and at least one of the first 10 screenshotUrls is not
\* blank: the resolved list is the normalized non-blank ones among the first
\* 10, each once, in order of first occurrence, and no page is rendered.
C8_EnglishUsesNonBlankApi ==
    (Resolved /\ ~NonEnglish(resolved_language) /\ metadata # None
         /\ \E i \in 1..Len(metadata.screenshotUrls) :
               i <= MaxShots /\ Strip(metadata.screenshotUrls[i]) # <<>>)
        => /\ image_urls = DictFromKeys(ApiUrls(metadata))
           /\ crawl = "none"
           /\ metadata = OneShotMeta => image_urls = << <<"https:", "//", "x.com", "/a", ".jpg">> >>
           /\ metadata = ManyShotsMeta => image_urls = ApiShots(MaxShots)

\* C8's case: a URL given twice among the screenshotUrls is resolved once.
C8_Witness ==
    /\ Resolved /\ ~NonEnglish(resolved_language) /\ metadata = MixedMeta
    /\ Len(image_urls) < Len(metadata.screenshotUrls)

\* C9 (as claimed): when a stage raises and a later stage would find URLs on
\* the page, the scrape still returns URLs.
C9_StageErrorIsSkipped ==
    (Scraped /\ \E i \in 1..Len(STAGE_ORDER) :
                    /\ raised_at = STAGE_ORDER[i]
                    /\ \E j \in (i + 1)..Len(STAGE_ORDER) :
                          StageOutput(STAGE_ORDER[j], html) # <<>>)
        => scraped_urls # <<>>

\* C10: the results follow the input list, one per country in input order,
\* whatever failed on the way, and every call returns with all of them.
C10_OneResultPerCountry ==
    /\ [](/\ Len(results) = done_count
          /\ Len(results) <= Len(countries)
          /\ \A i \in 1..Len(results) : results[i].country = CountryCode(countries[i])
          /\ pc = "done" => Len(results) = Len(countries))
    /\ <>(pc = "done")

\* C10's case: the call has returned, the lookup found nothing for the first
\* country, and the second one has its screenshots.
C10_Witness ==
    /\ pc = "done" /\ Len(countries) = 2
    /\ results[1].logo_path = <<>> /\ results[1].screenshot_count = 0
    /\ results[2].screenshot_count > 0

\* The debug files of the country being processed, and those among some files.
DebugPaths == {DebugHtmlPath(country_code), DebugUrlsPath(country_code)}

\* Every extraction stage comes up empty on the page.
AllStagesEmpty(page) == \A i \in 1..Len(STAGE_ORDER) : StageOutput(STAGE_ORDER[i], page) = <<>>

\* C11 (as claimed): a country whose lookup found no app gets a result with no
\* logo, no screenshot paths and a screenshot count of 0.
C11_NoAppNoAssets ==
    (pc = "finish" /\ metadata = None)
        => /\ CountryResult.logo_path = <<>>
           /\ CountryResult.screenshot_paths = <<>>
           /\ CountryResult.screenshot_count = 0

\* C12: a failed render ends the scrape on the spot with an empty list; no
\* stage has run, and from then on no debug file is written while the country
\* is processed.
C12_RenderFailureReturnsAtOnce ==
    /\ [](crawl = "failed" => (stages_run = <<>> /\ scraped_urls = <<>> /\ html = None
                               /\ pc \in {"merge", "download", "finish"}))
    /\ [][(pc = "render" /\ crawl' = "failed") => (pc' = "merge" /\ files' = files)]_vars
    /\ [][crawl = "failed" => (files' \cap DebugPaths) = (files \cap DebugPaths)]_vars

\* C12's case: the render failed for a country that has no debug file, and the
\* scrape is back in download_screenshots.
C12_Witness ==
    /\ pc = "merge" /\ crawl = "failed" /\ scraped_urls = <<>>
    /\ files \cap DebugPaths = {}

InCountry == pc \notin {"loop", "sleep", "done", "pdf", "pdf_error", "end"}

\* C14: one flow of control.  A country is taken up only from the head of the
\* loop, which is reached only at the start and after a rate-limit sleep; the
\* sleep follows the append of the country's result; while a country is
\* processed the results hold exactly the countries before it.
C14_CountriesOneAfterAnother ==
    /\ [](InCountry => (Len(results) = done_count /\ done_count < Len(countries)
                        /\ country_code = CountryCode(countries[done_count + 1])))
    /\ [][(~InCountry /\ InCountry') => (pc = "loop" /\ pc' = "lookup")]_vars
    /\ [][pc' = "loop" => (pc = "sleep" \/ pc = "loop")]_vars
    /\ [][pc' = "sleep" => (pc = "sleep"
                            \/ (pc = "finish" /\ results' = Append(results, CountryResult)
                                /\ done_count' = done_count + 1))]_vars
    /\ [][(InCountry /\ pc' # pc) => Len(results') >= Len(results)]_vars

\* C14's case: the second country is being rendered and the first one's result
\* is in the list.
C14_Witness ==
    /\ pc = "render" /\ done_count = 1 /\ Len(results) = 1
    /\ results[1].country = CountryCode(countries[1])

\* The positions of the entries that _parse_srcset keeps, by the table.
KeptEntries == {i \in 1..Len(entries) : entries[i].url.kept}

\* The kept entry that wins: no kept entry scores more, none before it as much.
Winner(i) ==
    /\ i \in KeptEntries
    /\ \A j \in KeptEntries : entries[j].descriptor.score <= entries[i].descriptor.score
    /\ \A j \in KeptEntries :
          j < i => entries[j].descriptor.score < entries[i].descriptor.score

\* C15: what the strict stage takes from a source is the URL of the entry with
\* the greatest score, the earliest of them on a tie; a score-0 entry is taken
\* only when no kept entry has a positive score; with no kept entry nothing is
\* taken.
C15_StrictTakesBestCandidate ==
    pc = "picked"
        => /\ KeptEntries = {} => found_urls = <<>>
           /\ \A i \in 1..Len(entries) :
                 Winner(i) => found_urls = <<entries[i].url.normalized>>
           /\ (\E j \in KeptEntries : entries[j].descriptor.score > 0)
                 => \E i \in KeptEntries :
                       /\ entries[i].descriptor.score > 0
                       /\ found_urls = <<entries[i].url.normalized>>

\* C15's case: an entry with 1242w wins over an earlier one with 750w.
C15_Witness ==
    /\ pc = "picked" /\ Len(entries) = 2
    /\ entries[1].descriptor.given = <<"750", "w">>
    /\ entries[2].descriptor.given = <<"1242", "w">>
    /\ entries[1].url.kept /\ entries[1].url # entries[2].url
    /\ found_urls = <<entries[2].url.normalized>>

\* C16: _parse_srcset returns one candidate per kept entry, in srcset order:
\* its score is N for "Nw", D * 1000 for "Dx" and 0 for no or an unrecognised
\* descriptor, its order is the entry's index in the srcset (so the orders
\* increase strictly), its URL is normalized; entries whose normalized URL
\* does not start with "http" are left out.
C16_ParseSrcsetScores ==
    pc \in {"parsed", "picked"}
        => /\ Len(candidates) = Cardinality(KeptEntries)
           /\ \A k \in 1..Len(candidates) :
                 /\ Nth(KeptEntries, k) \in KeptEntries
                 /\ candidates[k].order = Nth(KeptEntries, k) - 1
                 /\ candidates[k].score = entries[Nth(KeptEntries, k)].descriptor.score
                 /\ candidates[k].url = entries[Nth(KeptEntries, k)].url.normalized
           /\ \A k \in 1..(Len(candidates) - 1) :
                 candidates[k].order < candidates[k + 1].order

\* C16's case: "750w" scored 750 and "2x" scored 2000, after an entry that was
\* left out.
C16_Witness ==
    /\ pc = "parsed" /\ Len(entries) = 2
    /\ ~entries[1].url.kept
    /\ entries[2].descriptor.given = <<"2", "x">>
    /\ Len(candidates) = 1 /\ candidates[1].score = 2000 /\ candidates[1].order = 1

\* C17: download_logo requests the first artwork URL there is among
\* artworkUrl512, artworkUrl100 and artworkUrl60, with its size segment turned
\* into /512x512bb and nothing else changed; with no metadata of its own or no artwork URL
\* it returns no logo and requests nothing.
C17_LogoFromLargestArtwork ==
    pc = "api"
        => LET chosen == IF logo_metadata = None THEN <<>>
                         ELSE IF logo_metadata.artworkUrl512 # <<>> THEN logo_metadata.artworkUrl512
                         ELSE IF logo_metadata.artworkUrl100 # <<>> THEN logo_metadata.artworkUrl100
                         ELSE logo_metadata.artworkUrl60
           IN /\ chosen = <<>>
                    => (logo_path = <<>> /\ requested_url = <<>> /\ failures = 0)
              /\ chosen # <<>>
                    => /\ Len(requested_url) = Len(chosen)
                       /\ \A i \in 1..Len(chosen) :
                             requested_url[i] = IF chosen[i] \in SizeSegments
                                                THEN "/512x512bb" ELSE chosen[i]
              /\ logo_metadata = ArtworkMeta
                    => requested_url = <<"https:", "//", "is1-ssl.mzstatic.com",
                                         "/image/thumb/", "/icon100", "/512x512bb", ".jpg">>
              /\ logo_path # <<>> => (logo_path = LogoPath(country_code) /\ logo_path \in files)

\* C17's case: artworkUrl100 was taken over artworkUrl60, fetched as
\* /512x512bb.jpg, and the logo is on disk.
C17_Witness ==
    /\ pc = "api" /\ logo_metadata = ArtworkMeta
    /\ requested_url[5] = "/icon100" /\ requested_url[6] = "/512x512bb"
    /\ logo_path # <<>>

\* C18: with PDF generation enabled, download_report.json is in place before
\* PDF generation starts and stays in place; an exception raised by PDF
\* generation is caught, and the run goes on to its normal end.
C18_ReportBeforePdf ==
    /\ [](pc \in {"pdf", "pdf_error", "end"} => ReportPath \in files)
    /\ [][pc = "pdf" => (pc' \in {"pdf_error", "end"} /\ ReportPath \in files')]_vars
    /\ [][pc = "pdf_error" => (pc' = "end" /\ files' = files)]_vars
    /\ (pc = "pdf") ~> (pc = "end")

\* PDF generation has raised in a run that downloaded assets; the exception is
\* in the handler and the JSON report is on disk.
C18_Witness ==
    /\ pc = "pdf_error"
    /\ ReportPath \in files
    /\ PdfPath \notin files
    /\ Len(results) = 1

\* The stage that ran last in the scrape under way, or "" before the first.
LastStage == IF stages_run = <<>> THEN "" ELSE stages_run[Len(stages_run)]

\* C19: no URL that the strict or the loose stage returns contains "AppIcon",
\* "marketing" or "1200x630".
C19_StructuredStagesExclude ==
    LastStage \in {"strict", "loose"} =>
        \A i \in 1..Len(found_urls) : ~ContainsAny(found_urls[i], STRICT_EXCLUDES)

\* C20: no URL that the regex stage returns contains "1200x630", "AppIcon-" or
\* "marketing", whichever of its two filters admitted it.
C20_RegexStageExcludes ==
    LastStage = "regex" =>
        \A i \in 1..Len(found_urls) : ~ContainsAny(found_urls[i], REGEX_EXCLUDES)

\* The source attributes of an <img>, in the order the stage names them.
ImgAttributes(img) == <<img.src, img.data_src, img.data_lazy_src>>

\* C21: the img stage accepts an <img> whenever one of src, data-src,
\* data-lazy-src holds a CDN URL with a known resolution token; an element
\* whose src is a placeholder still contributes its matching data-src or
\* data-lazy-src, with the size segment rewritten to 1290x2796.
C21_ImgStageTakesAnyAttribute ==
    (LastStage = "img" /\ Len(html.imgs) <= MaxShots) =>
        \A i \in 1..Len(html.imgs) : \A a \in 1..3 :
            ImgAccepted(ImgAttributes(html.imgs[i])[a]) =>
                ImgUrl(ImgAttributes(html.imgs[i])[a]) \in Range(found_urls)

\* The JPEG sources of a page's pictures, in document order.
JpegSources(page) ==
    SelectSeq(Flatten(page.pictures), LAMBDA s : Contains(s.type, "image/jpeg"))

\* The URL that the strict stage considers for one JPEG source: the
\* best-scored candidate of its srcset, or <<>> when it has none.
StrictPick(source) ==
    LET parsed == ParseSrcset(SrcsetOf(source))
    IN IF parsed = <<>> \/ ~Contains(SrcsetOf(source), "mzstatic.com") THEN <<>>
       ELSE BestCandidate(parsed).url

\* C22: in the strict stage's output no two URLs share a size-stripped base
\* path, each URL is the first one the page offers for its base path, and each
\* holds one of the small size tokens.
C22_StrictOnePerBasePath ==
    LastStage = "strict" =>
        /\ \A i, j \in 1..Len(found_urls) :
              BaseUrl(found_urls[i]) = BaseUrl(found_urls[j]) => i = j
        /\ \A i \in 1..Len(found_urls) :
              \E k \in 1..Len(found_urls[i]) : found_urls[i][k] \in StrictSizeSegments
        /\ \A i \in 1..Len(found_urls) :
              LET sources == JpegSources(html)
                  same == {n \in 1..Len(sources) :
                              /\ StrictPick(sources[n]) # <<>>
                              /\ ~ContainsAny(StrictPick(sources[n]), STRICT_EXCLUDES)
                              /\ \E k \in 1..Len(StrictPick(sources[n])) :
                                    StrictPick(sources[n])[k] \in StrictSizeSegments
                              /\ BaseUrl(StrictPick(sources[n])) = BaseUrl(found_urls[i])}
              IN /\ same # {}
                 /\ found_urls[i] = StrictPick(sources[Nth(same, 1)])

\* The strict stage has met two different URLs of one base path and kept the
\* first, next to a URL of another base path.
C22_Witness ==
    /\ LastStage = "strict"
    /\ Len(found_urls) = 2
    /\ \E n \in 1..Len(JpegSources(html)) :
          /\ StrictPick(JpegSources(html)[n]) # <<>>
          /\ StrictPick(JpegSources(html)[n]) \notin Range(found_urls)
          /\ BaseUrl(StrictPick(JpegSources(html)[n])) = BaseUrl(found_urls[1])

\* C23: download_file reports success exactly when the bytes were written to
\* the destination; a call that reports failure leaves the destination
\* unwritten, and logo_path is set only after a success.
C23_FailedDownloadWritesNothing ==
    [][/\ (pc = "logo" /\ logo_path' = <<>>) => files' = files
       /\ (pc = "logo" /\ logo_path' # <<>>) => logo_path' \in files'
       /\ (pc = "download" /\ downloaded_paths' = downloaded_paths) => files' = files
       /\ (pc = "download" /\ downloaded_paths' # downloaded_paths) =>
              ScreenshotPath(country_code, shot_index') \in files']_vars

\* Between two countries nothing of the last download_assets_for_country call
\* is left: its locals are back at their initial values.
NoLeftovers ==
    /\ metadata = None /\ resolved_language = <<>> /\ slug = <<>> /\ logo_path = <<>>
    /\ api_urls = <<>> /\ scraped_urls = <<>> /\ image_urls = <<>> /\ shot_index = 0
    /\ downloaded_paths = <<>> /\ crawl = "none" /\ html = None /\ found_urls = <<>>
    /\ stages_run = <<>> /\ raised_at = "none" /\ failures = 0

\* What the result of the k-th country owes to that country alone.
OwnResult(k) ==
    LET cc == CountryCode(countries[k]) IN
    /\ results[k].country = cc
    /\ results[k].language = ResolveLanguage(cc, MapLanguage(language_map, cc))
    /\ results[k].logo_path \in {<<>>, LogoPath(cc)}
    /\ \A n \in 1..Len(results[k].screenshot_paths) :
          \E m \in 1..(2 * MaxShots) : results[k].screenshot_paths[n] = ScreenshotPath(cc, m)

\* C24: the countries share no state but the results list: a country starts
\* from a clean slate, appending its result leaves the earlier results as they
\* were, and each result is made of its own country's data only.
C24_CountriesShareOnlyResults ==
    /\ [](pc \in {"loop", "sleep", "lookup"} => NoLeftovers)
    /\ [][results' # results =>
             /\ Len(results') = Len(results) + 1
             /\ SubSeq(results', 1, Len(results)) = results]_vars
    /\ [][countries' = countries /\ language_map' = language_map]_vars
    /\ [](\A k \in 1..Len(results) : OwnResult(k))

\* Two different countries have been processed, each with a screenshot saved.
C24_Witness ==
    /\ pc = "done"
    /\ Len(results) = 2
    /\ results[1].country # results[2].country
    /\ results[1].screenshot_count > 0
    /\ results[2].screenshot_count > 0

\* _scrape_screenshot_urls has been called for the country being processed.
RenderAttempted ==
    pc \in {"render", "strict", "loose", "img", "source", "regex", "debug"} \/ crawl # "none"

\* download_screenshots is past its decision to scrape or not.
ScrapeDecided == pc \in {"merge", "download", "finish"}

\* C25: the storefront page is rendered exactly when the language is
\* non-English or the API gave no screenshot URL; with an English (or no)
\* language and an API URL there is no render and no debug file is written.
C25_RenderOnlyWhenNeeded ==
    /\ [](RenderAttempted => (NonEnglish(resolved_language) \/ api_urls = <<>>))
    /\ [](ScrapeDecided =>
             ((NonEnglish(resolved_language) \/ api_urls = <<>>) => RenderAttempted))
    /\ [][(~NonEnglish(resolved_language) /\ api_urls # <<>>) =>
             (files' \ files) \cap DebugPaths = {}]_vars

\* A country with an English language and API screenshots has been resolved
\* and downloaded without a render and without debug files.
C25_Witness ==
    /\ pc = "finish"
    /\ ~NonEnglish(resolved_language)
    /\ api_urls # <<>>
    /\ downloaded_paths # <<>>
    /\ crawl = "none"
    /\ files \cap DebugPaths = {}

\* paths are screenshot files of country cc with increasing numbers, none
\* above top.
IncreasingShots(paths, cc, top) ==
    /\ \A n \in 1..Len(paths) : \E i \in 1..top : paths[n] = ScreenshotPath(cc, i)
    /\ \A n, m \in 1..Len(paths) :
          n < m => \E i, j \in 1..top : /\ i < j
                                        /\ paths[n] = ScreenshotPath(cc, i)
                                        /\ paths[m] = ScreenshotPath(cc, j)

\* C26: the URL at position i of the resolved list is requested and saved as
\* screenshot_<i>.jpg; a success appends that path, a failure appends nothing
\* and shifts no number; every resolved URL is tried; screenshot_paths is in
\* increasing i and screenshot_count is its length.
C26_ScreenshotNumbering ==
    /\ [][pc = "download" =>
             /\ shot_index' = shot_index + 1
             /\ requested_url' = image_urls[shot_index']
             /\ success' =>
                   /\ downloaded_paths' =
                         Append(downloaded_paths, ScreenshotPath(country_code, shot_index'))
                   /\ ScreenshotPath(country_code, shot_index') \in files'
             /\ ~success' => downloaded_paths' = downloaded_paths]_vars
    /\ [](pc = "finish" => shot_index = Len(image_urls))
    /\ [](pc \in {"download", "finish"} =>
             IncreasingShots(downloaded_paths, country_code, shot_index))
    /\ [](\A k \in 1..Len(results) :
             /\ results[k].screenshot_count = Len(results[k].screenshot_paths)
             /\ IncreasingShots(results[k].screenshot_paths, results[k].country, 2 * MaxShots))

\* A country's result with a gap in the numbering: the first resolved URL
\* failed and the second was saved as screenshot_2.jpg.
C26_Witness ==
    /\ Len(results) = 1
    /\ results[1].screenshot_count = 1
    /\ results[1].screenshot_paths = <<ScreenshotPath(results[1].country, 2)>>

\* C27: the country folders and download_report.json lie under the same app
\* folder: sanitizing the sanitized folder name again gives that same name.
C27_SanitizeIdempotent ==
    pc = "resanitized" => safe_app_dir = app_dir_name

\* C28: for every value and fallback the folder name returned is not empty,
\* holds no invalid path character, is not a reserved device name and is at
\* most 200 characters long.
C28_SanitizedNameIsSafe ==
    pc = "named" =>
        /\ app_dir_name # <<>>
        /\ \A i \in 1..Len(app_dir_name) : app_dir_name[i] \notin INVALID_PATH_CHARS
        /\ Upper(app_dir_name) \notin WINDOWS_RESERVED_NAMES
        /\ Len(app_dir_name) <= NAME_LIMIT

\* C29: while one country is processed the metadata lookup is requested
\* exactly once, and the logo step and the screenshot step work with the
\* outcome of that one lookup, also when it returned nothing.
C29_OneLookupPerCountry ==
    pc \in {"render", "merge", "download", "finish"} =>
        /\ lookups = 1
        /\ logo_metadata = metadata
        /\ shots_metadata = metadata

\* C30: at the end of a run, "PDF report saved" has been printed and the
\* summary shows a PDF path (instead of "Skipped") only if the PDF file was
\* actually written. The command leaves before its report when it has no
\* result at all ("if not results: raise typer.Exit(1)"), so the property
\* speaks of runs with at least one country.
C30_PdfShownOnlyIfWritten ==
    pc = "end" /\ results # <<>> =>
        /\ saved_printed => PdfPath \in files
        /\ SummaryReportPdf # <<"Skipped">> => PdfPath \in files

====
